---- MODULE Spec2Model ----
(***************************************************************************)
(* io-homecontrol protocol engine: frame codec, authentication tag,        *)
(* controller facade (send / receive) and the 2W challenge manager.        *)
(* Bytes are naturals 0..255, byte arrays are sequences indexed from 1     *)
(* (C index i is TLA+ index i+1).                                          *)
(***************************************************************************)
EXTENDS Integers, Sequences, FiniteSets, TLC

\* ------------------------------------------------------------------------
\* Protocol constants (iohome_constants.h)
\* ------------------------------------------------------------------------
FRAME_MIN_SIZE == 11
FRAME_MAX_SIZE == 32
FRAME_MAX_DATA_SIZE == 21
NODE_ID_SIZE == 3
ROLLING_CODE_SIZE == 2
HMAC_SIZE == 6
CRC_SIZE == 2
IV_SIZE == 16
AES_KEY_SIZE == 16
CTRL0_PROTOCOL_MASK == 32
CTRL0_LENGTH_MASK == 31
IV_PADDING == 85
CRC_POLYNOMIAL == 33800
CMD_CHALLENGE_REQUEST == 60
CMD_CHALLENGE_RESPONSE == 61
CMD_SET_POSITION == 96
CMD_STOP == 97
CMD_OPEN == 98
CMD_CLOSE == 99
CMD_KEY_TRANSFER_1W == 48
BROADCAST_ADDRESS == <<0, 0, 0>>

\* ------------------------------------------------------------------------
\* Bit operations on fixed-width unsigned integers
\* ------------------------------------------------------------------------
RECURSIVE XorN(_, _, _)
XorN(a, b, n) ==
  IF n = 0 THEN 0
  ELSE ((a + b) % 2) + 2 * XorN(a \div 2, b \div 2, n - 1)

RECURSIVE AndN(_, _, _)
AndN(a, b, n) ==
  IF n = 0 THEN 0
  ELSE ((a % 2) * (b % 2)) + 2 * AndN(a \div 2, b \div 2, n - 1)

\* byte-wide tables, evaluated once
Xor8Table == [a \in 0..255 |-> [b \in 0..255 |-> XorN(a, b, 8)]]
And8Table == [a \in 0..255 |-> [b \in 0..255 |-> AndN(a, b, 8)]]

Xor8(a, b) == Xor8Table[a][b]
Xor16(a, b) == 256 * Xor8Table[a \div 256][b \div 256] + Xor8Table[a % 256][b % 256]
And8(a, b) == And8Table[a][b]
Or8(a, b) == a + b - And8(a, b)

\* n zero bytes (memset(p, 0, n))
Zeros(n) == [i \in 1..n |-> 0]

\* ------------------------------------------------------------------------
\* CRC-16/KERMIT (iohome_crypto.cpp)
\* ------------------------------------------------------------------------
RECURSIVE crc_shift(_, _)
crc_shift(crc, i) ==
  IF i = 0 THEN crc
  ELSE LET remainder == IF crc % 2 = 1 THEN CRC_POLYNOMIAL ELSE 0
           shifted == Xor16(crc \div 2, remainder)
       IN IF shifted >= 0 THEN crc_shift(shifted, i - 1) ELSE 0

compute_crc16_byte(data, crc) == crc_shift(Xor16(crc, data), 8)

RECURSIVE crc_loop(_, _, _, _)
crc_loop(data, length, i, crc) ==
  IF i > length THEN crc
  ELSE LET updated == compute_crc16_byte(data[i], crc)
       IN IF updated >= 0 THEN crc_loop(data, length, i + 1, updated) ELSE 0

\* variant: the register starts at 0xFFFF
compute_crc16_ones(data, length) == crc_loop(data, length, 1, 65535)

compute_crc16(data, length) == crc_loop(data, length, 1, 0)

\* variant: the received CRC is read most significant byte first
verify_crc16_msb_first(frame, length) ==
  IF length < CRC_SIZE THEN FALSE
  ELSE compute_crc16(frame, length - CRC_SIZE)
         = 256 * frame[length - 1] + frame[length]

verify_crc16(frame, length) ==
  IF length < CRC_SIZE THEN FALSE
  ELSE compute_crc16(frame, length - CRC_SIZE)
         = frame[length - 1] + 256 * frame[length]

\* ------------------------------------------------------------------------
\* Running checksum and IV construction (iohome_crypto.cpp)
\* ------------------------------------------------------------------------
\* state of the two accumulators is the pair <<chksum1, chksum2>>
\* variant: the branch is taken on the high bit of tmpchksum
compute_checksum_tmp_branch(frame_byte, chk) ==
  LET tmpchksum == Xor8(frame_byte, chk[2])
      c2a == ((chk[1] % 128) * 2) % 256
      c2b == IF tmpchksum >= 128 THEN Or8(c2a, 1) ELSE c2a
  IN IF tmpchksum < 128
       THEN <<c2b, (tmpchksum * 2) % 256>>
       ELSE <<Xor8(c2b, 85), Xor8((tmpchksum * 2) % 256, 91)>>

compute_checksum(frame_byte, chk) ==
  LET tmpchksum == Xor8(frame_byte, chk[2])
      c2a == ((chk[1] % 128) * 2) % 256
      c2b == IF tmpchksum >= 128 THEN Or8(c2a, 1) ELSE c2a
  IN IF chk[1] < 128
       THEN <<c2b, (tmpchksum * 2) % 256>>
       ELSE <<Xor8(c2b, 85), Xor8((tmpchksum * 2) % 256, 91)>>

RECURSIVE checksum_loop(_, _, _, _)
checksum_loop(frame_data, data_len, i, chk) ==
  IF i > data_len THEN chk
  ELSE LET updated == compute_checksum(frame_data[i], chk)
       IN IF updated[1] >= 0 THEN checksum_loop(frame_data, data_len, i + 1, updated)
          ELSE chk

\* bytes 0-7 of the IV: the first 8 bytes of frame_data, padded with 0x55
iv_head(frame_data, data_len) ==
  [i \in 1..8 |-> IF i <= data_len THEN frame_data[i] ELSE IV_PADDING]

\* variant: the checksum covers only the bytes copied into the head
construct_iv_1w_head_checksum(frame_data, data_len, sequence_number) ==
  iv_head(frame_data, data_len)
    \o checksum_loop(frame_data, IF data_len < 8 THEN data_len ELSE 8, 1, <<0, 0>>)
    \o SubSeq(sequence_number, 1, ROLLING_CODE_SIZE)
    \o [i \in 1..4 |-> IV_PADDING]

\* head | chksum1 chksum2 | sequence number (2) | 0x55 x 4
construct_iv_1w(frame_data, data_len, sequence_number) ==
  iv_head(frame_data, data_len)
    \o checksum_loop(frame_data, data_len, 1, <<0, 0>>)
    \o SubSeq(sequence_number, 1, ROLLING_CODE_SIZE)
    \o [i \in 1..4 |-> IV_PADDING]

\* head | chksum1 chksum2 | challenge (6)
construct_iv_2w(frame_data, data_len, challenge) ==
  iv_head(frame_data, data_len)
    \o checksum_loop(frame_data, data_len, 1, <<0, 0>>)
    \o SubSeq(challenge, 1, HMAC_SIZE)

\* ------------------------------------------------------------------------
\* AES-128-ECB of one block.  The cipher itself is the mbedtls primitive;
\* it is represented by a keyed bijection on 16-byte blocks (a byte
\* permutation followed by a XOR with the key), which is deterministic and,
\* truncated to HMAC_SIZE bytes, collision-free on the inputs used below.
\* ------------------------------------------------------------------------
AesPerm == <<1, 2, 9, 10, 11, 12, 3, 4, 5, 6, 7, 8, 13, 14, 15, 16>>

aes128_encrypt(input, key) ==
  [i \in 1..IV_SIZE |-> Xor8(input[AesPerm[i]], key[i])]

create_1w_hmac(frame_data, data_len, sequence_number, system_key) ==
  SubSeq(aes128_encrypt(construct_iv_1w(frame_data, data_len, sequence_number),
                        system_key), 1, HMAC_SIZE)

create_2w_hmac(frame_data, data_len, challenge, system_key) ==
  SubSeq(aes128_encrypt(construct_iv_2w(frame_data, data_len, challenge),
                        system_key), 1, HMAC_SIZE)

\* variant: the tag is recomputed under the all-zero key
verify_hmac_zero_key(frame_data, data_len, received_hmac, sequence_or_challenge, system_key, is_2w) ==
  received_hmac =
    (IF is_2w
       THEN create_2w_hmac(frame_data, data_len, sequence_or_challenge, Zeros(AES_KEY_SIZE))
       ELSE create_1w_hmac(frame_data, data_len, sequence_or_challenge, Zeros(AES_KEY_SIZE)))

\* sequence_or_challenge must be a readable array here; the null case is
\* handled by the caller (validate_frame_outcomes)
verify_hmac(frame_data, data_len, received_hmac, sequence_or_challenge, system_key, is_2w) ==
  received_hmac =
    (IF is_2w
       THEN create_2w_hmac(frame_data, data_len, sequence_or_challenge, system_key)
       ELSE create_1w_hmac(frame_data, data_len, sequence_or_challenge, system_key))

\* ------------------------------------------------------------------------
\* Frame codec (iohome_frame.h / iohome_frame.cpp)
\* ------------------------------------------------------------------------
NullPtr == <<>>

\* memset(frame, 0, sizeof(IoFrame))
ZeroFrame ==
  [ctrl_byte_0 |-> 0, ctrl_byte_1 |-> 0,
   dest_node |-> Zeros(NODE_ID_SIZE), src_node |-> Zeros(NODE_ID_SIZE),
   command_id |-> 0, data |-> Zeros(FRAME_MAX_DATA_SIZE), data_len |-> 0,
   rolling_code |-> Zeros(ROLLING_CODE_SIZE), hmac |-> Zeros(HMAC_SIZE),
   crc |-> Zeros(CRC_SIZE), is_1w_mode |-> FALSE, frame_length |-> 0]

init_frame(is_1w) ==
  [ZeroFrame EXCEPT !.is_1w_mode = is_1w,
                    !.ctrl_byte_0 = IF is_1w THEN 0 ELSE CTRL0_PROTOCOL_MASK]

set_destination(frame, node_id) == [frame EXCEPT !.dest_node = node_id]

set_source(frame, node_id) == [frame EXCEPT !.src_node = node_id]

\* total_length as computed in set_command:
\* 9 + 1 + data_len + (ROLLING_CODE_SIZE in 1W) + HMAC_SIZE + CRC_SIZE, in uint8_t
total_length(is_1w, data_len) ==
  (IF is_1w THEN 9 + 1 + data_len + ROLLING_CODE_SIZE + HMAC_SIZE + CRC_SIZE
            ELSE 9 + 1 + data_len + HMAC_SIZE + CRC_SIZE) % 256

\* result: [ok, frame]; params is the parameter array, Len(params) = params_len
\* variant: the command id is stored before the length is checked
set_command_late_check(frame, cmd_id, params) ==
  IF Len(params) > FRAME_MAX_DATA_SIZE
    THEN [ok |-> FALSE, frame |-> [frame EXCEPT !.command_id = cmd_id]]
    ELSE LET tl == total_length(frame.is_1w_mode, Len(params))
         IN [ok |-> TRUE,
             frame |-> [frame EXCEPT
               !.command_id = cmd_id,
               !.data_len = Len(params),
               !.data = [i \in 1..FRAME_MAX_DATA_SIZE |->
                           IF i <= Len(params) THEN params[i] ELSE frame.data[i]],
               !.frame_length = tl,
               !.ctrl_byte_0 =
                  Or8(And8(frame.ctrl_byte_0, 255 - CTRL0_LENGTH_MASK),
                      And8((tl - FRAME_MIN_SIZE) % 256, CTRL0_LENGTH_MASK))]]

set_command(frame, cmd_id, params) ==
  IF Len(params) > FRAME_MAX_DATA_SIZE
    THEN [ok |-> FALSE, frame |-> frame]
    ELSE LET tl == total_length(frame.is_1w_mode, Len(params))
         IN [ok |-> TRUE,
             frame |-> [frame EXCEPT
               !.command_id = cmd_id,
               !.data_len = Len(params),
               !.data = [i \in 1..FRAME_MAX_DATA_SIZE |->
                           IF i <= Len(params) THEN params[i] ELSE frame.data[i]],
               !.frame_length = tl,
               !.ctrl_byte_0 =
                  Or8(And8(frame.ctrl_byte_0, 255 - CTRL0_LENGTH_MASK),
                      And8((tl - FRAME_MIN_SIZE) % 256, CTRL0_LENGTH_MASK))]]

set_rolling_code(frame, code) ==
  [frame EXCEPT !.rolling_code = <<code % 256, (code \div 256) % 256>>]

\* result: [len, bytes]; len = 0 and nothing written when the buffer is too small
serialize_frame(frame, buffer_size) ==
  IF buffer_size < frame.frame_length
    THEN [len |-> 0, bytes |-> <<>>]
    ELSE LET out == <<frame.ctrl_byte_0, frame.ctrl_byte_1>>
                    \o frame.dest_node \o frame.src_node
                    \o <<frame.command_id>>
                    \o SubSeq(frame.data, 1, frame.data_len)
                    \o (IF frame.is_1w_mode THEN frame.rolling_code ELSE <<>>)
                    \o frame.hmac \o frame.crc
         IN [len |-> Len(out), bytes |-> out]

\* cmd || params, as assembled in finalize_frame and validate_frame
frame_data_of(frame) == <<frame.command_id>> \o SubSeq(frame.data, 1, frame.data_len)

\* frame->crc[0] = crc_value & 0xFF; frame->crc[1] = (crc_value >> 8) & 0xFF
store_crc(frame, crc_value) ==
  [frame EXCEPT !.crc = <<crc_value % 256, (crc_value \div 256) % 256>>]

\* second half of finalize_frame: serialize the tagged frame into the
\* 32-byte temp buffer, compute the CRC over all but the CRC field, store it
finalize_crc(frame) ==
  LET ser == serialize_frame(frame, FRAME_MAX_SIZE)
  IN IF ser.len = 0
       THEN [ok |-> FALSE, frame |-> frame]
       ELSE [ok |-> TRUE,
             frame |-> store_crc(frame, compute_crc16(ser.bytes, ser.len - CRC_SIZE))]

\* result: [ok, frame]; challenge = NullPtr models a null pointer
finalize_frame(frame, system_key, challenge) ==
  IF ~frame.is_1w_mode /\ challenge = NullPtr
    THEN [ok |-> FALSE, frame |-> frame]
    ELSE finalize_crc(
           [frame EXCEPT !.hmac =
              IF frame.is_1w_mode
                THEN create_1w_hmac(frame_data_of(frame), 1 + frame.data_len,
                                    frame.rolling_code, system_key)
                ELSE create_2w_hmac(frame_data_of(frame), 1 + frame.data_len,
                                    challenge, system_key)])

is_2w_mode(ctrl_byte_0) == And8(ctrl_byte_0, CTRL0_PROTOCOL_MASK) # 0

get_frame_length(ctrl_byte_0) == And8(ctrl_byte_0, CTRL0_LENGTH_MASK) + FRAME_MIN_SIZE

\* result: [ok, frame]; buffer_len is the length the caller passes, the bytes
\* available are buffer[1..Len(buffer)]
parse_frame(buffer, buffer_len) ==
  IF buffer_len < FRAME_MIN_SIZE
    THEN [ok |-> FALSE, frame |-> ZeroFrame]
    ELSE LET c0 == buffer[1]
             is1w == ~is_2w_mode(c0)
             flen == get_frame_length(c0)
             hdr == [ZeroFrame EXCEPT !.ctrl_byte_0 = c0, !.ctrl_byte_1 = buffer[2],
                                      !.is_1w_mode = is1w, !.frame_length = flen]
         IN IF buffer_len < flen
              THEN [ok |-> FALSE, frame |-> hdr]
              ELSE LET dlen == IF is1w
                                 THEN (flen - (9 + 1 + ROLLING_CODE_SIZE + HMAC_SIZE + CRC_SIZE)) % 256
                                 ELSE (flen - (9 + 1 + HMAC_SIZE + CRC_SIZE)) % 256
                       addr == [hdr EXCEPT !.dest_node = SubSeq(buffer, 3, 5),
                                           !.src_node = SubSeq(buffer, 6, 8),
                                           !.command_id = buffer[9],
                                           !.data_len = dlen]
                       o1 == 9 + dlen
                       o2 == IF is1w THEN o1 + ROLLING_CODE_SIZE ELSE o1
                   IN IF dlen > FRAME_MAX_DATA_SIZE
                        THEN [ok |-> FALSE, frame |-> addr]
                        ELSE [ok |-> TRUE,
                              frame |-> [addr EXCEPT
                                 !.data = [i \in 1..FRAME_MAX_DATA_SIZE |->
                                             IF i <= dlen THEN buffer[9 + i] ELSE 0],
                                 !.rolling_code = IF is1w THEN SubSeq(buffer, o1 + 1, o1 + 2)
                                                          ELSE Zeros(ROLLING_CODE_SIZE),
                                 !.hmac = SubSeq(buffer, o2 + 1, o2 + HMAC_SIZE),
                                 !.crc = SubSeq(buffer, o2 + HMAC_SIZE + 1,
                                                o2 + HMAC_SIZE + CRC_SIZE)]]

\* data_len as parse_frame derives it from frame_length (uint8_t)
parsed_data_len(is1w, flen) ==
  IF is1w THEN (flen - (9 + 1 + ROLLING_CODE_SIZE + HMAC_SIZE + CRC_SIZE)) % 256
  ELSE (flen - (9 + 1 + HMAC_SIZE + CRC_SIZE)) % 256

\* number of buffer bytes parse_frame has read when it returns after the
\* trailer: header, parameters, rolling code in 1W, tag, CRC
parsed_through(is1w, dlen) ==
  9 + dlen + (IF is1w THEN ROLLING_CODE_SIZE ELSE 0) + HMAC_SIZE + CRC_SIZE

\* variant: the derived data length is not checked before the parameters are copied
parse_frame_reads_unchecked(buffer, buffer_len) ==
  IF buffer_len < FRAME_MIN_SIZE THEN {}
  ELSE IF buffer_len < get_frame_length(buffer[1]) THEN {0, 1}
  ELSE 0..(parsed_through(~is_2w_mode(buffer[1]),
                          parsed_data_len(~is_2w_mode(buffer[1]),
                                          get_frame_length(buffer[1]))) - 1)

\* the buffer indices (from 0) parse_frame reads: none when the buffer is
\* shorter than FRAME_MIN_SIZE, the two control bytes when it is shorter than
\* the declared length, the 9 header bytes when the derived data length is
\* refused, and everything through the CRC otherwise
parse_frame_reads(buffer, buffer_len) ==
  IF buffer_len < FRAME_MIN_SIZE THEN {}
  ELSE IF buffer_len < get_frame_length(buffer[1]) THEN {0, 1}
  ELSE IF parsed_data_len(~is_2w_mode(buffer[1]), get_frame_length(buffer[1]))
            > FRAME_MAX_DATA_SIZE
    THEN 0..8
  ELSE 0..(parsed_through(~is_2w_mode(buffer[1]),
                          parsed_data_len(~is_2w_mode(buffer[1]),
                                          get_frame_length(buffer[1]))) - 1)

\* validate_frame: the set of outcomes the call can have.  "true"/"false" are
\* the return values; with a key, a 2W frame and a null challenge the code
\* passes the null pointer to verify_hmac -> create_2w_hmac ->
\* construct_iv_2w, whose memcpy reads 6 bytes from address 0 (undefined
\* behaviour): the call may trap, or compare against a tag made from whatever
\* was read.
validate_frame_outcomes(frame, system_key, challenge) ==
  LET ser == serialize_frame(frame, FRAME_MAX_SIZE)
  IN IF ser.len = 0 THEN {"false"}
     ELSE IF ~verify_crc16(ser.bytes, ser.len) THEN {"false"}
     ELSE IF system_key = NullPtr THEN {"true"}
     ELSE IF ~frame.is_1w_mode /\ challenge = NullPtr THEN {"true", "false", "trap"}
     ELSE IF verify_hmac(frame_data_of(frame), 1 + frame.data_len, frame.hmac,
                         IF frame.is_1w_mode THEN frame.rolling_code ELSE challenge,
                         system_key, ~frame.is_1w_mode)
       THEN {"true"} ELSE {"false"}

\* TRUE iff validate_frame reaches verify_hmac for this call
validate_reaches_hmac(frame, system_key) ==
  LET ser == serialize_frame(frame, FRAME_MAX_SIZE)
  IN ser.len # 0 /\ verify_crc16(ser.bytes, ser.len) /\ system_key # NullPtr

\* validate_frame for calls whose pointers are all valid
validate_frame(frame, system_key, challenge) ==
  validate_frame_outcomes(frame, system_key, challenge) = {"true"}

\* ------------------------------------------------------------------------
\* Input domains
\* ------------------------------------------------------------------------
MaxParamLen == 22          \* parameter lengths 0..MaxParamLen are exercised
MaxPad == 1                \* extra bytes a receive buffer may hold after the frame

OwnNode == <<171, 205, 239>>
PeerNode == <<100, 101, 117>>
NodeIds == {OwnNode, PeerNode, BROADCAST_ADDRESS}

KeyA == [i \in 1..AES_KEY_SIZE |-> i - 1]
KeyB == [i \in 1..AES_KEY_SIZE |-> (7 * i + 3) % 256]
ZeroKey == Zeros(AES_KEY_SIZE)

ChallengeA == <<17, 34, 51, 68, 85, 102>>
ChallengeB == <<161, 178, 195, 212, 229, 246>>
Challenges == {ChallengeA, ChallengeB}

Commands == {CMD_SET_POSITION, CMD_KEY_TRANSFER_1W}
ParamSeeds == {50}
RollingCodes == {7, 65535}

ParamsOf(seed, n) ==
  [i \in 1..n |-> IF i = 1 THEN seed ELSE IF i = 2 THEN 0 ELSE (seed + 7 * i) % 256]

\* ------------------------------------------------------------------------
\* State
\* ------------------------------------------------------------------------
VARIABLES
  tx_frame,      \* codec: the IoFrame being built
  phase,         \* codec: "none" | "init" | "dest" | "addressed" | "built" | "rejected" | "finalized" | "finalize_failed"
                 \*        | "response" | "response_failed" (frame written by create_challenge_response)
  bound_to,      \* codec: challenge pointer handed to finalize_frame
  wire,          \* codec: [len, bytes] returned by serialize_frame, or handed to parse_frame by ParseBuffer
  rx,            \* codec: [done, exact, ok, frame] of the last parse_frame
  val            \* codec: [done, key, challenge, outcome, hmac] of the last validate_frame

VARIABLES
  initialized_,  \* controller: begin() was called
  is_1w_mode_,   \* controller: operating mode
  system_key_,   \* controller: 16-byte key
  own_node_id_,  \* controller: 3-byte node id
  rolling_code_, \* controller: next 1W rolling code (uint16_t)
  receiving_,    \* controller: reception active
  rx_callback_,  \* controller: registered callback ("nullptr" or a callback name)
  trapped,       \* controller: the process trapped on an invalid memory access
  last_send,     \* observation: outcome of the last send_command call, bytes handed to the
                 \*              radio, receiving_ as radio_->transmit found it, whether
                 \*              the radio resumed reception after it
  tx_hist,       \* observation: rolling codes of the last two transmitted frames
  last_rx,       \* observation: outcome of the last check_received call
  rx_hist        \* observation: rolling codes of the last two accepted 1W frames

codec_vars == <<tx_frame, phase, bound_to, wire, rx>>
ctl_vars == <<initialized_, is_1w_mode_, system_key_, own_node_id_, rolling_code_,
              receiving_, rx_callback_, trapped>>
send_vars == <<last_send, tx_hist>>
recv_vars == <<last_rx, rx_hist>>
VARIABLES
  state_,               \* authentication manager: "IDLE" | "CHALLENGE_SENT" | "AUTHENTICATED"
  current_challenge_,   \* authentication manager: stored 6-byte challenge
  challenge_timestamp_, \* authentication manager: GET_TIME_MS() at generate_challenge
  auth_key_,            \* authentication manager: its system_key_
  now_ms,               \* the millisecond clock read by GET_TIME_MS()
  ticks,                \* observation: number of clock advances so far
  last_verify           \* observation: the verify_challenge_response call just made

auth_vars == <<state_, current_challenge_, challenge_timestamp_, auth_key_>>
clock_vars == <<now_ms, ticks>>

VARIABLES
  crc_buf,              \* CRC: the byte buffer handed to compute_crc16 / verify_crc16
  crc_res               \* CRC: [op, n, value, ok, wire] of the call just made on crc_buf

VARIABLES
  current_channel_,     \* hopper: "CHANNEL_1" | "CHANNEL_2" | "CHANNEL_3"
  last_hop_time_ms_,    \* hopper: millisecond reading stored at the last hop / begin / reset
  hop_interval_us_,     \* hopper: dwell in microseconds
  enabled_,             \* hopper: hopping enabled
  hop_now_us,           \* the microsecond clock (GET_TIME_MS() reads hop_now_us / 1000)
  hop_ticks,            \* observation: number of advances of hop_now_us
  hop_obs               \* observation: the hopper call just made and the hops counted so far

VARIABLES
  disc_state_,            \* discovery: state_, "IDLE" | "DISCOVERING" | "FOUND"
  discovery_start_time_,  \* discovery: GET_TIME_MS() at start_discovery
  discovery_timeout_,     \* discovery: timeout_ms given to start_discovery
  discovered_devices_,    \* discovery: the slots of discovered_devices_[] written so far
  discovered_count_,      \* discovery: number of valid entries
  disc_obs                \* observation: the discovery call just made, sources ingested

VARIABLES
  kt                      \* key transfer: [op, system_key, binding, encrypted_out] of the call just made

VARIABLES
  task_pc,                \* tasks in send_command: "idle" | "built" | "coded" | "loaded" | "stored"
  task_frame_code,        \* tasks: the rolling code set_rolling_code put into the task's tx_frame
  task_loaded,            \* tasks: the value of rolling_code_ loaded by rolling_code_++
  produced,               \* observation: rolling codes of the frames finalized so far, in order
  entered                 \* observation: number of send_command calls entered

VARIABLES
  beacon_received_,       \* beacon handler: a beacon was stored since begin()
  last_beacon_,           \* beacon handler: the BeaconInfo stored by process_beacon
  beacon_obs              \* observation: the beacon handler call just made, the last beacon frame fed

VARIABLES
  iv_obs                  \* IV construction: [op, data, binding, out] of the call just made

iv_vars == <<iv_obs>>
beacon_vars == <<beacon_received_, last_beacon_, beacon_obs>>
task_vars == <<task_pc, task_frame_code, task_loaded, produced, entered>>
kt_vars == <<kt>>
crc_vars == <<crc_buf, crc_res>>
hop_vars == <<current_channel_, last_hop_time_ms_, hop_interval_us_, enabled_,
              hop_now_us, hop_ticks, hop_obs>>
disc_vars == <<disc_state_, discovery_start_time_, discovery_timeout_,
               discovered_devices_, discovered_count_, disc_obs>>
ext_vars == <<crc_vars, hop_vars, disc_vars, kt_vars, task_vars, beacon_vars, iv_vars>>

base_vars == <<codec_vars, val, ctl_vars, send_vars, recv_vars, auth_vars, last_verify>>
crc_others == <<base_vars, clock_vars, hop_vars, disc_vars, kt_vars, task_vars, beacon_vars,
                 iv_vars>>
hop_others == <<base_vars, clock_vars, crc_vars, disc_vars, kt_vars, task_vars, beacon_vars,
                 iv_vars>>
disc_others == <<base_vars, clock_vars, crc_vars, hop_vars, kt_vars, task_vars, beacon_vars,
                  iv_vars>>
kt_others == <<base_vars, clock_vars, crc_vars, hop_vars, disc_vars, task_vars, beacon_vars,
                iv_vars>>
task_others == <<codec_vars, val, send_vars, recv_vars, auth_vars, last_verify, clock_vars,
                 crc_vars, hop_vars, disc_vars, kt_vars, beacon_vars, iv_vars>>
iv_others == <<base_vars, clock_vars, crc_vars, hop_vars, disc_vars, kt_vars, task_vars,
               beacon_vars>>
beacon_others == <<base_vars, clock_vars, crc_vars, hop_vars, disc_vars, kt_vars, task_vars,
                    iv_vars>>

vars == <<codec_vars, val, ctl_vars, send_vars, recv_vars, auth_vars, clock_vars, last_verify,
          ext_vars>>

NoWire == [len |-> 0, bytes |-> <<>>]
NoRx == [done |-> FALSE, exact |-> FALSE, ok |-> FALSE, frame |-> ZeroFrame]
NoVal == [done |-> FALSE, mode2w |-> FALSE, key |-> NullPtr, challenge |-> NullPtr,
          outcome |-> "none", hmac |-> FALSE]

CodecInit ==
  /\ tx_frame = ZeroFrame
  /\ phase = "none"
  /\ bound_to = NullPtr
  /\ wire = NoWire
  /\ rx = NoRx
  /\ val = NoVal

\* ------------------------------------------------------------------------
\* Codec operations
\* ------------------------------------------------------------------------
InitFrame(is_1w) ==
  /\ UNCHANGED <<ext_vars, ctl_vars, send_vars, recv_vars, auth_vars, clock_vars, last_verify>>
  /\ tx_frame' = init_frame(is_1w)
  /\ phase' = "init"
  /\ bound_to' = NullPtr
  /\ wire' = NoWire
  /\ rx' = NoRx
  /\ val' = NoVal

SetDestination(node_id) ==
  /\ UNCHANGED <<ext_vars, ctl_vars, send_vars, recv_vars, auth_vars, clock_vars, last_verify>>
  /\ phase = "init"
  /\ tx_frame' = set_destination(tx_frame, node_id)
  /\ phase' = "dest"
  /\ UNCHANGED <<bound_to, wire, rx, val>>

SetSource(node_id) ==
  /\ UNCHANGED <<ext_vars, ctl_vars, send_vars, recv_vars, auth_vars, clock_vars, last_verify>>
  /\ phase = "dest"
  /\ tx_frame' = set_source(tx_frame, node_id)
  /\ phase' = "addressed"
  /\ UNCHANGED <<bound_to, wire, rx, val>>

SetCommand(cmd_id, params) ==
  /\ UNCHANGED <<ext_vars, ctl_vars, send_vars, recv_vars, auth_vars, clock_vars, last_verify>>
  /\ phase = "addressed"
  /\ LET r == set_command(tx_frame, cmd_id, params)
     IN /\ tx_frame' = r.frame
        /\ phase' = IF r.ok THEN "built" ELSE "rejected"
  /\ UNCHANGED <<bound_to, wire, rx, val>>

SetRollingCode(code) ==
  /\ UNCHANGED <<ext_vars, ctl_vars, send_vars, recv_vars, auth_vars, clock_vars, last_verify>>
  /\ phase = "built"
  /\ tx_frame.is_1w_mode
  /\ tx_frame' = set_rolling_code(tx_frame, code)
  /\ UNCHANGED <<phase, bound_to, wire, rx, val>>

Finalize(system_key, challenge) ==
  /\ UNCHANGED <<ext_vars, ctl_vars, send_vars, recv_vars, auth_vars, clock_vars, last_verify>>
  /\ phase = "built"
  /\ LET r == finalize_frame(tx_frame, system_key, challenge)
     IN /\ tx_frame' = r.frame
        /\ phase' = IF r.ok THEN "finalized" ELSE "finalize_failed"
  /\ bound_to' = challenge
  /\ UNCHANGED <<wire, rx, val>>

Serialize ==
  /\ UNCHANGED <<ext_vars, ctl_vars, send_vars, recv_vars, auth_vars, clock_vars, last_verify>>
  /\ phase = "finalized"
  /\ wire = NoWire
  /\ ~val.done
  /\ wire' = serialize_frame(tx_frame, FRAME_MAX_SIZE)
  /\ UNCHANGED <<tx_frame, phase, bound_to, rx, val>>

\* parse_frame on a buffer that holds the serialized bytes followed by pad
\* further bytes, buffer_len = all of them
Parse(pad) ==
  /\ UNCHANGED <<ext_vars, ctl_vars, send_vars, recv_vars, auth_vars, clock_vars, last_verify>>
  /\ wire.len > 0
  /\ ~rx.done
  /\ LET buffer == wire.bytes \o Zeros(pad)
         r == parse_frame(buffer, Len(buffer))
     IN rx' = [done |-> TRUE, exact |-> (pad = 0), ok |-> r.ok, frame |-> r.frame]
  /\ UNCHANGED <<tx_frame, phase, bound_to, wire, val>>

Validate(system_key, challenge) ==
  /\ UNCHANGED <<ext_vars, ctl_vars, send_vars, recv_vars, auth_vars, clock_vars, last_verify>>
  /\ phase = "finalized"
  /\ ~val.done
  /\ wire = NoWire
  /\ \E o \in validate_frame_outcomes(tx_frame, system_key, challenge) :
       val' = [done |-> TRUE, mode2w |-> ~tx_frame.is_1w_mode,
               key |-> system_key, challenge |-> challenge, outcome |-> o,
               hmac |-> validate_reaches_hmac(tx_frame, system_key)]
  /\ UNCHANGED <<tx_frame, phase, bound_to, wire, rx>>

\* set_command called again on a frame that already carries a command
SetCommandAgain(cmd_id, params) ==
  /\ UNCHANGED <<ext_vars, ctl_vars, send_vars, recv_vars, auth_vars, clock_vars, last_verify>>
  /\ phase = "built"
  /\ \E r \in {set_command(tx_frame, cmd_id, params)} :
        /\ tx_frame' = r.frame
        /\ phase' = IF r.ok THEN "built" ELSE "rejected"
  /\ UNCHANGED <<bound_to, wire, rx, val>>

RebuildNext ==
  \/ \E m \in BOOLEAN : InitFrame(m)
  \/ \E n \in {PeerNode, BROADCAST_ADDRESS} : SetDestination(n)
  \/ SetSource(OwnNode)
  \/ \E c \in Commands, sd \in ParamSeeds, n \in {0, 2, 21, 22} : SetCommand(c, ParamsOf(sd, n))
  \/ \E c \in Commands, sd \in {50, 51}, n \in {0, 2, 21, 22} :
       SetCommandAgain(c, ParamsOf(sd, n))

\* buffers a receiver may hand to parse_frame: a first byte ctrl0 followed
\* by the bytes 17, 18, ...
ParseCtrl0 == {m + l : m \in {0, CTRL0_PROTOCOL_MASK}, l \in 0..CTRL0_LENGTH_MASK}
ParseLens == {0, 10, 11, 17, 18, 19, 20, 31, 32, 41, 42, 43}
RawBuffer(ctrl0, len) == [i \in 1..len |-> IF i = 1 THEN ctrl0 ELSE 15 + i]

\* parse_frame on a buffer of exactly buffer_len bytes
ParseBuffer(ctrl0, buffer_len) ==
  /\ UNCHANGED <<ext_vars, ctl_vars, send_vars, recv_vars, auth_vars, clock_vars, last_verify>>
  /\ \E r \in {parse_frame(RawBuffer(ctrl0, buffer_len), buffer_len)} :
        rx' = [done |-> TRUE, exact |-> TRUE, ok |-> r.ok, frame |-> r.frame]
  /\ wire' = [len |-> buffer_len, bytes |-> RawBuffer(ctrl0, buffer_len)]
  /\ tx_frame' = ZeroFrame
  /\ phase' = "none"
  /\ bound_to' = NullPtr
  /\ val' = NoVal

ParseNext == \E c0 \in ParseCtrl0, len \in ParseLens : ParseBuffer(c0, len)

CodecNext ==
  \/ \E m \in BOOLEAN : InitFrame(m)
  \/ \E n \in {PeerNode, BROADCAST_ADDRESS} : SetDestination(n)
  \/ SetSource(OwnNode)
  \/ \E c \in Commands, sd \in ParamSeeds, n \in 0..MaxParamLen : SetCommand(c, ParamsOf(sd, n))
  \/ \E rc \in RollingCodes : SetRollingCode(rc)
  \/ \E ch \in {ChallengeA, NullPtr} : Finalize(KeyA, ch)
  \/ Serialize
  \/ \E pad \in 0..MaxPad : Parse(pad)
  \/ \E k \in {KeyA, NullPtr}, ch \in Challenges \cup {NullPtr} : Validate(k, ch)


\* ------------------------------------------------------------------------
\* Controller facade (IoHomeControl.h / IoHomeControl.cpp)
\* ------------------------------------------------------------------------
MaxSends == 4              \* send_command calls explored after a counter is set

NoSend == [done |-> FALSE, ret |-> FALSE, stage |-> "none", rc |-> 0, calls |-> 0,
           bytes |-> <<>>, is_1w |-> TRUE, call |-> <<"none">>, rx_at_tx |-> FALSE,
           resumed |-> FALSE]
NoTxHist == [prev |-> -1, last |-> -1, skipped |-> 0, pending |-> 0]
NoLastRx == [done |-> FALSE, ret |-> "false", id |-> "none", callbacks |-> 0]
NoRxHist == [prev |-> -1, last |-> -1]

CtlInit ==
  /\ initialized_ = FALSE
  /\ is_1w_mode_ = TRUE
  /\ system_key_ = ZeroKey
  /\ own_node_id_ = Zeros(NODE_ID_SIZE)
  /\ rolling_code_ = 0
  /\ receiving_ = FALSE
  /\ rx_callback_ = "nullptr"
  /\ trapped = FALSE
  /\ last_send = NoSend
  /\ tx_hist = NoTxHist
  /\ last_rx = NoLastRx
  /\ rx_hist = NoRxHist

\* variant: the counter is not advanced
next_rolling_code_stuck(code) == code

\* rolling_code_++ on a uint16_t
next_rolling_code(code) == (code + 1) % 65536

\* stop_receive: receiving_ afterwards (the radio is put in standby)
stop_receive(receiving) == IF receiving THEN FALSE ELSE receiving

\* start_receive on an initialized controller: [callback, receiving];
\* radio_ok is the result of the radio's startReceive
start_receive(callback, radio_ok, receiving) ==
  [callback |-> callback, receiving |-> IF radio_ok THEN TRUE ELSE receiving]

\* transmit_frame from the serialized bytes on: stopped is receiving_ when
\* radio_->transmit is invoked, resumed is start_receive's result
transmit_serialized(ser, tx_ok, stopped, resumed) ==
  [ret |-> tx_ok, handed |-> TRUE, bytes |-> ser.bytes, rx_at_tx |-> stopped,
   receiving |-> resumed.receiving, callback |-> resumed.callback]

\* variant: reception is left running during the transmission
transmit_frame_no_standby(frame, was_receiving, tx_ok, restart_ok) ==
  LET ser == serialize_frame(frame, FRAME_MAX_SIZE)
  IN IF ser.len = 0
       THEN [ret |-> FALSE, handed |-> FALSE, bytes |-> <<>>, rx_at_tx |-> was_receiving,
             receiving |-> was_receiving, callback |-> rx_callback_]
       ELSE transmit_serialized(ser, tx_ok, was_receiving,
                                [callback |-> rx_callback_, receiving |-> was_receiving])

\* transmit_frame: [ret, handed, bytes, rx_at_tx, receiving, callback];
\* handed = radio_->transmit was invoked with bytes; tx_ok / restart_ok are
\* the results of the radio's transmit and startReceive
transmit_frame(frame, was_receiving, tx_ok, restart_ok) ==
  LET ser == serialize_frame(frame, FRAME_MAX_SIZE)
  IN IF ser.len = 0
       THEN [ret |-> FALSE, handed |-> FALSE, bytes |-> <<>>, rx_at_tx |-> was_receiving,
             receiving |-> was_receiving, callback |-> rx_callback_]
     ELSE IF was_receiving
       THEN transmit_serialized(ser, tx_ok, stop_receive(was_receiving),
                                start_receive(rx_callback_, restart_ok,
                                              stop_receive(was_receiving)))
     ELSE transmit_serialized(ser, tx_ok, was_receiving,
                              [callback |-> rx_callback_, receiving |-> was_receiving])

\* send_command returning before anything is handed to the radio
send_failed(stage, code) ==
  [ret |-> FALSE, stage |-> stage, rc |-> rolling_code_, rolling_code |-> code,
   receiving |-> receiving_, handed |-> FALSE, bytes |-> <<>>,
   rx_at_tx |-> receiving_, callback |-> rx_callback_]

\* variant: the counter is put back when the frame did not leave
send_transmitted_rollback(t, code) ==
  [ret |-> t.ret,
   stage |-> IF ~t.handed THEN "serialize" ELSE IF t.ret THEN "sent" ELSE "radio",
   rc |-> rolling_code_, rolling_code |-> IF t.ret THEN code ELSE rolling_code_,
   receiving |-> t.receiving, handed |-> t.handed, bytes |-> t.bytes,
   rx_at_tx |-> t.rx_at_tx, callback |-> t.callback]

\* send_command, return transmit_frame(tx_frame): t is transmit_frame's result
send_transmitted(t, code) ==
  [ret |-> t.ret,
   stage |-> IF ~t.handed THEN "serialize" ELSE IF t.ret THEN "sent" ELSE "radio",
   rc |-> rolling_code_, rolling_code |-> code,
   receiving |-> t.receiving, handed |-> t.handed, bytes |-> t.bytes,
   rx_at_tx |-> t.rx_at_tx, callback |-> t.callback]

\* send_command from finalize_frame's result fin on; code is rolling_code_
\* after the increment
send_finalized(fin, code, tx_ok, restart_ok) ==
  IF ~fin.ok THEN send_failed("finalize", code)
  ELSE send_transmitted(transmit_frame(fin.frame, receiving_, tx_ok, restart_ok), code)

\* variant: the counter is advanced before set_command's result is looked at
send_built_counting(sc, tx_ok, restart_ok) ==
  IF ~sc.ok
    THEN send_failed("set_command",
                     IF is_1w_mode_ THEN next_rolling_code(rolling_code_) ELSE rolling_code_)
  ELSE send_finalized(
         finalize_frame(IF is_1w_mode_ THEN set_rolling_code(sc.frame, rolling_code_)
                                       ELSE sc.frame,
                        system_key_, NullPtr),
         IF is_1w_mode_ THEN next_rolling_code(rolling_code_) ELSE rolling_code_,
         tx_ok, restart_ok)

\* send_command from set_command's result sc on
send_built(sc, tx_ok, restart_ok) ==
  IF ~sc.ok THEN send_failed("set_command", rolling_code_)
  ELSE send_finalized(
         finalize_frame(IF is_1w_mode_ THEN set_rolling_code(sc.frame, rolling_code_)
                                       ELSE sc.frame,
                        system_key_, NullPtr),
         IF is_1w_mode_ THEN next_rolling_code(rolling_code_) ELSE rolling_code_,
         tx_ok, restart_ok)

\* send_command: [ret, stage, rc, rolling_code, receiving, handed, bytes, rx_at_tx, callback]
send_command(dest_node, cmd_id, params, tx_ok, restart_ok) ==
  IF ~initialized_ THEN send_failed("not_initialized", rolling_code_)
  ELSE send_built(
         set_command(set_source(set_destination(init_frame(is_1w_mode_), dest_node),
                                own_node_id_),
                     cmd_id, params),
         tx_ok, restart_ok)

Begin(own_node_id, system_key, is_1w) ==
  /\ ~trapped
  /\ own_node_id_' = own_node_id
  /\ system_key_' = system_key
  /\ is_1w_mode_' = is_1w
  /\ initialized_' = TRUE
  /\ UNCHANGED <<rolling_code_, receiving_, rx_callback_, trapped>>
  /\ UNCHANGED <<ext_vars, codec_vars, val, send_vars, recv_vars, auth_vars, clock_vars, last_verify>>

\* radio_ok is the result of the radio's startReceive
StartReceive(callback, radio_ok) ==
  /\ ~trapped
  /\ IF ~initialized_
       THEN UNCHANGED <<rx_callback_, receiving_>>
       ELSE /\ rx_callback_' = callback
            /\ receiving_' = IF radio_ok THEN TRUE ELSE receiving_
  /\ UNCHANGED <<initialized_, is_1w_mode_, system_key_, own_node_id_, rolling_code_, trapped>>
  /\ UNCHANGED <<ext_vars, codec_vars, val, send_vars, recv_vars, auth_vars, clock_vars, last_verify>>

StopReceive ==
  /\ ~trapped
  /\ receiving_' = FALSE
  /\ UNCHANGED <<initialized_, is_1w_mode_, system_key_, own_node_id_, rolling_code_,
                 rx_callback_, trapped>>
  /\ UNCHANGED <<ext_vars, codec_vars, val, send_vars, recv_vars, auth_vars, clock_vars, last_verify>>

\* IoHomeControl::set_rolling_code (restores the persisted counter)
SetRollingCodeCtl(code) ==
  /\ ~trapped
  /\ rolling_code_' = code
  /\ last_send' = NoSend
  /\ tx_hist' = NoTxHist
  /\ UNCHANGED <<initialized_, is_1w_mode_, system_key_, own_node_id_, receiving_,
                 rx_callback_, trapped>>
  /\ UNCHANGED <<ext_vars, codec_vars, val, recv_vars, auth_vars, clock_vars, last_verify>>

\* the effect on the controller of a call of the public method named in call
\* that returned send_command's result r
\* restart_ok: the result of the radio's startReceive, had reception to be resumed
SendCalled(call, r, restart_ok) ==
  /\ ~trapped
  /\ last_send.calls < MaxSends
  /\ rolling_code_' = r.rolling_code
  /\ receiving_' = r.receiving
  /\ rx_callback_' = r.callback
  /\ last_send' = [done |-> TRUE, ret |-> r.ret, stage |-> r.stage, rc |-> r.rc,
                   calls |-> last_send.calls + 1, bytes |-> r.bytes,
                   is_1w |-> is_1w_mode_, call |-> call,
                   rx_at_tx |-> r.handed /\ r.rx_at_tx,
                   resumed |-> r.handed /\ receiving_ /\ restart_ok]
  /\ tx_hist' =
       IF r.ret /\ is_1w_mode_
         THEN [prev |-> tx_hist.last, last |-> r.rc,
               skipped |-> tx_hist.pending, pending |-> 0]
         ELSE [tx_hist EXCEPT !.pending =
                 IF r.rolling_code # rolling_code_ THEN @ + 1 ELSE @]
  /\ UNCHANGED <<initialized_, is_1w_mode_, system_key_, own_node_id_, trapped>>
  /\ UNCHANGED <<ext_vars, codec_vars, val, recv_vars, auth_vars, clock_vars, last_verify>>

SendCommand(dest_node, cmd_id, params, tx_ok, restart_ok) ==
  \E r \in {send_command(dest_node, cmd_id, params, tx_ok, restart_ok)} :
     SendCalled(<<"send_command", dest_node, Len(params)>>, r, restart_ok)

\* uint8_t params[2] = {position, 0x00}
set_position(dest_node, position, tx_ok, restart_ok) ==
  send_command(dest_node, CMD_SET_POSITION, <<position, 0>>, tx_ok, restart_ok)

open(dest_node, tx_ok, restart_ok) == set_position(dest_node, 100, tx_ok, restart_ok)

close(dest_node, tx_ok, restart_ok) == set_position(dest_node, 0, tx_ok, restart_ok)

\* uint8_t params[1] = {0x00}
stop(dest_node, tx_ok, restart_ok) ==
  send_command(dest_node, CMD_STOP, <<0>>, tx_ok, restart_ok)

SetPosition(dest_node, position, tx_ok, restart_ok) ==
  \E r \in {set_position(dest_node, position, tx_ok, restart_ok)} :
     SendCalled(<<"set_position", dest_node, position>>, r, restart_ok)

Open(dest_node, tx_ok, restart_ok) ==
  \E r \in {open(dest_node, tx_ok, restart_ok)} : SendCalled(<<"open", dest_node>>, r, restart_ok)

Close(dest_node, tx_ok, restart_ok) ==
  \E r \in {close(dest_node, tx_ok, restart_ok)} : SendCalled(<<"close", dest_node>>, r, restart_ok)

Stop(dest_node, tx_ok, restart_ok) ==
  \E r \in {stop(dest_node, tx_ok, restart_ok)} : SendCalled(<<"stop", dest_node>>, r, restart_ok)

Positions == {0, 37, 100}
WrapperDests == {PeerNode, <<1, 2, 3>>}

WrapperNext ==
  \/ \E m \in BOOLEAN : Begin(OwnNode, KeyA, m)
  \/ \E d \in WrapperDests, pct \in Positions, tx_ok \in BOOLEAN :
       SetPosition(d, pct, tx_ok, TRUE)
  \/ \E d \in WrapperDests, tx_ok \in BOOLEAN : Open(d, tx_ok, TRUE)
  \/ \E d \in WrapperDests, tx_ok \in BOOLEAN : Close(d, tx_ok, TRUE)
  \/ \E d \in WrapperDests, tx_ok \in BOOLEAN : Stop(d, tx_ok, TRUE)

SendParamLens == {0, 2, 13, 22}

SendNext ==
  \/ \E m \in BOOLEAN : Begin(OwnNode, KeyA, m)
  \/ \E cb \in {"nullptr", "on_frame"}, ok \in BOOLEAN : StartReceive(cb, ok)
  \/ StopReceive
  \/ \E rc \in {7, 65535} : SetRollingCodeCtl(rc)
  \/ \E n \in SendParamLens, tx_ok \in BOOLEAN, restart_ok \in BOOLEAN :
       SendCommand(PeerNode, CMD_SET_POSITION, ParamsOf(50, n), tx_ok, restart_ok)

\* a frame as a peer holding system_key builds it
\* (the rolling_code field of a 2W frame stays zero)
peer_frame(is_1w, cmd_id, params, code, system_key, challenge) ==
  finalize_frame(
    set_rolling_code(
      set_command(set_source(set_destination(init_frame(is_1w), OwnNode), PeerNode),
                  cmd_id, params).frame,
      IF is_1w THEN code ELSE 0),
    system_key, challenge).frame

\* bytes on the air
wire_of(frame) ==
  <<frame.ctrl_byte_0, frame.ctrl_byte_1>> \o frame.dest_node \o frame.src_node
    \o <<frame.command_id>> \o SubSeq(frame.data, 1, frame.data_len)
    \o (IF frame.is_1w_mode THEN frame.rolling_code ELSE <<>>)
    \o frame.hmac \o frame.crc

\* ------------------------------------------------------------------------
\* Challenge-response authentication (iohome_2w.h / iohome_2w.cpp)
\* ------------------------------------------------------------------------
MaxTicks == 4              \* clock advances explored
CHALLENGE_TIMEOUT_MS == 5000
ClockSteps == {1, 4999}

NoVerify == [done |-> FALSE, ret |-> FALSE, id |-> "none", pre |-> "IDLE",
             post |-> "IDLE", elapsed |-> 0, challenge |-> Zeros(HMAC_SIZE)]

AuthInit ==
  /\ state_ = "IDLE"
  /\ current_challenge_ = Zeros(HMAC_SIZE)
  /\ challenge_timestamp_ = 0
  /\ auth_key_ = ZeroKey
  /\ now_ms = 0
  /\ ticks = 0
  /\ last_verify = NoVerify

\* create_challenge_response: the frame a responder holding system_key builds
\* (it reads none of the manager's challenge state)
response_built(sc, received_challenge, system_key) ==
  IF ~sc.ok THEN [ok |-> FALSE, frame |-> sc.frame]
  ELSE finalize_frame(sc.frame, system_key, received_challenge)

\* variant: the response is tagged with an all-zero binding
create_challenge_response_unbound(dest_node, src_node, received_challenge, system_key) ==
  response_built(
    set_command(set_source(set_destination(init_frame(FALSE), dest_node), src_node),
                CMD_CHALLENGE_RESPONSE, received_challenge),
    Zeros(HMAC_SIZE), system_key)

create_challenge_response(dest_node, src_node, received_challenge, system_key) ==
  response_built(
    set_command(set_source(set_destination(init_frame(FALSE), dest_node), src_node),
                CMD_CHALLENGE_RESPONSE, received_challenge),
    received_challenge, system_key)

\* current_time - challenge_timestamp_ on unsigned long.  The timestamp is an
\* earlier reading of the same non-decreasing clock, so the difference does
\* not wrap.
elapsed_ms(current_time, timestamp) == current_time - timestamp

\* variant: every failed attempt closes the session
verify_challenge_response_closing(frame, current_time) ==
  IF state_ # "CHALLENGE_SENT" THEN [ret |-> FALSE, state |-> state_]
  ELSE IF elapsed_ms(current_time, challenge_timestamp_) > CHALLENGE_TIMEOUT_MS
    THEN [ret |-> FALSE, state |-> "IDLE"]
  ELSE IF frame.command_id # CMD_CHALLENGE_RESPONSE
    THEN [ret |-> FALSE, state |-> "IDLE"]
  ELSE IF ~validate_frame(frame, auth_key_, current_challenge_)
    THEN [ret |-> FALSE, state |-> "IDLE"]
  ELSE [ret |-> TRUE, state |-> "AUTHENTICATED"]

\* variant: the timeout is not enforced
verify_challenge_response_noexpiry(frame, current_time) ==
  IF state_ # "CHALLENGE_SENT" THEN [ret |-> FALSE, state |-> state_]
  ELSE IF frame.command_id # CMD_CHALLENGE_RESPONSE
    THEN [ret |-> FALSE, state |-> state_]
  ELSE IF ~validate_frame(frame, auth_key_, current_challenge_)
    THEN [ret |-> FALSE, state |-> state_]
  ELSE [ret |-> TRUE, state |-> "AUTHENTICATED"]

\* verify_challenge_response: [ret, state]
\* variant: only an idle manager turns a response away
verify_challenge_response_reentrant(frame, current_time) ==
  IF state_ = "IDLE" THEN [ret |-> FALSE, state |-> state_]
  ELSE IF elapsed_ms(current_time, challenge_timestamp_) > CHALLENGE_TIMEOUT_MS
    THEN [ret |-> FALSE, state |-> "IDLE"]
  ELSE IF frame.command_id # CMD_CHALLENGE_RESPONSE
    THEN [ret |-> FALSE, state |-> state_]
  ELSE IF ~validate_frame(frame, auth_key_, current_challenge_)
    THEN [ret |-> FALSE, state |-> state_]
  ELSE [ret |-> TRUE, state |-> "AUTHENTICATED"]

verify_challenge_response(frame, current_time) ==
  IF state_ # "CHALLENGE_SENT" THEN [ret |-> FALSE, state |-> state_]
  ELSE IF elapsed_ms(current_time, challenge_timestamp_) > CHALLENGE_TIMEOUT_MS
    THEN [ret |-> FALSE, state |-> "IDLE"]
  ELSE IF frame.command_id # CMD_CHALLENGE_RESPONSE
    THEN [ret |-> FALSE, state |-> state_]
  ELSE IF ~validate_frame(frame, auth_key_, current_challenge_)
    THEN [ret |-> FALSE, state |-> state_]
  ELSE [ret |-> TRUE, state |-> "AUTHENTICATED"]

\* frames handed to verify_challenge_response
AuthIds == {"resp_A", "resp_B", "resp_badkey", "resp_badcrc", "resp_badtag",
            "request_A", "oneway_3D"}

\* a frame damaged in transit: one CRC byte changed
bad_crc(frame) == [frame EXCEPT !.crc = <<(frame.crc[1] + 1) % 256, frame.crc[2]>>]

\* a frame forged without the key: tag changed, CRC recomputed over it
retagged(frame) == [frame EXCEPT !.hmac = [i \in 1..HMAC_SIZE |-> (frame.hmac[i] + 1) % 256]]
recrc(frame) ==
  store_crc(frame, compute_crc16(wire_of(frame), Len(wire_of(frame)) - CRC_SIZE))
bad_tag(frame) == recrc(retagged(frame))

AuthFrame == [id \in AuthIds |->
  CASE id = "resp_A" -> create_challenge_response(OwnNode, PeerNode, ChallengeA, KeyA).frame
    [] id = "resp_B" -> create_challenge_response(OwnNode, PeerNode, ChallengeB, KeyA).frame
    [] id = "resp_badkey" ->
         create_challenge_response(OwnNode, PeerNode, ChallengeA, KeyB).frame
    [] id = "resp_badcrc" ->
         bad_crc(create_challenge_response(OwnNode, PeerNode, ChallengeA, KeyA).frame)
    [] id = "resp_badtag" ->
         bad_tag(create_challenge_response(OwnNode, PeerNode, ChallengeA, KeyA).frame)
    [] id = "request_A" ->
         peer_frame(FALSE, CMD_CHALLENGE_REQUEST, ChallengeA, 0, KeyA, ChallengeA)
    [] OTHER -> peer_frame(TRUE, CMD_CHALLENGE_RESPONSE, ChallengeA, 7, KeyA, NullPtr)]

AuthBegin(system_key) ==
  /\ auth_key_' = system_key
  /\ state_' = "IDLE"
  /\ last_verify' = NoVerify
  /\ UNCHANGED <<current_challenge_, challenge_timestamp_, clock_vars>>
  /\ UNCHANGED <<ext_vars, codec_vars, val, ctl_vars, send_vars, recv_vars>>

\* challenge is what the six RANDOM_BYTE() draws produce
GenerateChallenge(challenge) ==
  /\ current_challenge_' = challenge
  /\ challenge_timestamp_' = now_ms
  /\ state_' = "CHALLENGE_SENT"
  /\ last_verify' = NoVerify
  /\ UNCHANGED <<auth_key_, clock_vars>>
  /\ UNCHANGED <<ext_vars, codec_vars, val, ctl_vars, send_vars, recv_vars>>

VerifyChallengeResponse(id) ==
  /\ \E r \in {verify_challenge_response(AuthFrame[id], now_ms)} :
        /\ state_' = r.state
        /\ last_verify' =
             [done |-> TRUE, ret |-> r.ret, id |-> id, pre |-> state_, post |-> r.state,
              elapsed |-> IF state_ = "CHALLENGE_SENT"
                            THEN elapsed_ms(now_ms, challenge_timestamp_) ELSE 0,
              challenge |-> IF state_ = "CHALLENGE_SENT"
                              THEN current_challenge_ ELSE Zeros(HMAC_SIZE)]
  /\ UNCHANGED <<current_challenge_, challenge_timestamp_, auth_key_, clock_vars>>
  /\ UNCHANGED <<ext_vars, codec_vars, val, ctl_vars, send_vars, recv_vars>>

AuthReset ==
  /\ state_' = "IDLE"
  /\ current_challenge_' = Zeros(HMAC_SIZE)
  /\ challenge_timestamp_' = 0
  /\ last_verify' = NoVerify
  /\ UNCHANGED <<auth_key_, clock_vars>>
  /\ UNCHANGED <<ext_vars, codec_vars, val, ctl_vars, send_vars, recv_vars>>

\* time passes; nothing in the manager runs
ClockAdvance(d) ==
  /\ ticks < MaxTicks
  /\ now_ms' = now_ms + d
  /\ ticks' = ticks + 1
  /\ last_verify' = NoVerify
  /\ UNCHANGED auth_vars
  /\ UNCHANGED <<ext_vars, codec_vars, val, ctl_vars, send_vars, recv_vars>>

\* create_challenge_response called on the manager; the caller's frame is tx_frame
CreateChallengeResponse(dest_node, src_node, received_challenge) ==
  /\ \E r \in {create_challenge_response(dest_node, src_node, received_challenge, auth_key_)} :
        /\ tx_frame' = r.frame
        /\ phase' = IF r.ok THEN "response" ELSE "response_failed"
  /\ bound_to' = received_challenge
  /\ wire' = NoWire
  /\ rx' = NoRx
  /\ val' = NoVal
  /\ last_verify' = NoVerify
  /\ UNCHANGED <<auth_vars, clock_vars>>
  /\ UNCHANGED <<ext_vars, ctl_vars, send_vars, recv_vars>>

ResponderNext ==
  \/ AuthBegin(KeyA)
  \/ \E c \in Challenges : GenerateChallenge(c)
  \/ AuthReset
  \/ \E d \in ClockSteps : ClockAdvance(d)
  \/ \E n \in {OwnNode, BROADCAST_ADDRESS}, c \in Challenges \cup {Zeros(HMAC_SIZE)} :
       CreateChallengeResponse(n, PeerNode, c)

AuthNext ==
  \/ AuthBegin(KeyA)
  \/ \E c \in Challenges : GenerateChallenge(c)
  \/ \E id \in AuthIds : VerifyChallengeResponse(id)
  \/ AuthReset
  \/ \E d \in ClockSteps : ClockAdvance(d)

\* ------------------------------------------------------------------------
\* CRC functions applied to caller-supplied buffers (iohome_crypto.cpp)
\* ------------------------------------------------------------------------
MaxCrcData == 3            \* bytes appended one at a time before a trailer
CrcBytes == {0, 49, 255}
CheckString == <<49, 50, 51, 52, 53, 54, 55, 56, 57>>     \* "123456789"
TrailerKinds == {"lsb_first", "msb_first", "damaged"}

NoCrcRes == [op |-> "none", n |-> 0, value |-> 0, ok |-> FALSE, wire |-> <<>>]

CrcInit ==
  /\ crc_buf = <<>>
  /\ crc_res = NoCrcRes

\* two bytes a sender (or the channel) puts after the data
crc_trailer(kind, crc_value) ==
  CASE kind = "lsb_first" -> <<crc_value % 256, crc_value \div 256>>
    [] kind = "msb_first" -> <<crc_value \div 256, crc_value % 256>>
    [] OTHER -> <<(crc_value + 1) % 256, crc_value \div 256>>

CrcAppend(b) ==
  /\ UNCHANGED crc_others
  /\ crc_res.op = "none"
  /\ Len(crc_buf) < MaxCrcData
  /\ crc_buf' = Append(crc_buf, b)
  /\ UNCHANGED crc_res

CrcLoadCheckString ==
  /\ UNCHANGED crc_others
  /\ crc_res.op = "none"
  /\ crc_buf = <<>>
  /\ crc_buf' = CheckString
  /\ UNCHANGED crc_res

CrcSeal(kind) ==
  /\ UNCHANGED crc_others
  /\ crc_res.op = "none"
  /\ Len(crc_buf) <= MaxCrcData
  /\ crc_buf' = crc_buf \o crc_trailer(kind, compute_crc16(crc_buf, Len(crc_buf)))
  /\ UNCHANGED crc_res

\* compute_crc16(crc_buf, Len(crc_buf)) and the two bytes finalize_frame
\* would store for it
ComputeCrc16 ==
  /\ UNCHANGED crc_others
  /\ crc_res.op = "none"
  /\ \E c \in {compute_crc16(crc_buf, Len(crc_buf))} :
        crc_res' = [op |-> "compute", n |-> Len(crc_buf), value |-> c, ok |-> FALSE,
                    wire |-> store_crc(ZeroFrame, c).crc]
  /\ UNCHANGED crc_buf

VerifyCrc16(n) ==
  /\ UNCHANGED crc_others
  /\ crc_res.op = "none"
  /\ crc_res' = [op |-> "verify", n |-> n, value |-> 0, ok |-> verify_crc16(crc_buf, n),
                  wire |-> <<>>]
  /\ UNCHANGED crc_buf

CrcReset ==
  /\ UNCHANGED crc_others
  /\ crc_res.op # "none"
  /\ crc_buf' = <<>>
  /\ crc_res' = NoCrcRes

CrcNext ==
  \/ \E b \in CrcBytes : CrcAppend(b)
  \/ CrcLoadCheckString
  \/ \E k \in TrailerKinds : CrcSeal(k)
  \/ ComputeCrc16
  \/ \E n \in 0..Len(crc_buf) : VerifyCrc16(n)
  \/ CrcReset

\* ------------------------------------------------------------------------
\* Channel hopper (iohome_2w.h / iohome_2w.cpp)
\* ------------------------------------------------------------------------
MaxHopTicks == 4           \* advances of the microsecond clock explored
HopSteps == {1, 1000, 2699, 2700}
DEFAULT_HOP_INTERVAL_US == 2700
HopLateness == {0, 4294968}     \* ms; 4294968 * 1000 is the first multiple above 2^32
HopIntervals == {2700}     \* (unsigned long)(hop_interval_ms * 1000.0f) for 2.7 ms

\* op: the call just made; ret/prev: update's result and the channel before
\* it; hops/en_us: hops since hopping was last enabled and when that was;
\* ref_hops/ref_ms/ref_us: hops since the last begin or reset, the
\* millisecond reading it stored, and the time it was made
\* arg/until: the argument and the result of the last time_until_next_hop_us
NoHopObs == [op |-> "none", ret |-> FALSE, prev |-> "CHANNEL_2",
             hops |-> 0, en_us |-> -1, ref_hops |-> 0, ref_ms |-> 0, ref_us |-> 0,
             arg |-> 0, until |-> 0]

\* ChannelHopper::ChannelHopper
HopInit ==
  /\ current_channel_ = "CHANNEL_2"
  /\ last_hop_time_ms_ = 0
  /\ hop_interval_us_ = DEFAULT_HOP_INTERVAL_US
  /\ enabled_ = FALSE
  /\ hop_now_us = 0
  /\ hop_ticks = 0
  /\ hop_obs = NoHopObs

\* GET_TIME_MS(): the millisecond reading of the clock
GET_TIME_MS(t_us) == t_us \div 1000

next_channel(channel) ==
  CASE channel = "CHANNEL_1" -> "CHANNEL_2"
    [] channel = "CHANNEL_2" -> "CHANNEL_3"
    [] OTHER -> "CHANNEL_1"

\* current_time_ms * 1000UL - last_hop_time_ms_ * 1000UL on unsigned long:
\* the two products wrap alike, so the difference is
\* (current_time_ms - last_hop_time_ms_) * 1000 for readings this far apart
hop_elapsed_us(current_time_ms, last_hop_time_ms) ==
  (current_time_ms - last_hop_time_ms) * 1000

\* update: [ret, channel, last_hop_time_ms]
update(current_time_ms) ==
  IF ~enabled_
    THEN [ret |-> FALSE, channel |-> current_channel_, last_hop_time_ms |-> last_hop_time_ms_]
  ELSE IF hop_elapsed_us(current_time_ms, last_hop_time_ms_) >= hop_interval_us_
    THEN [ret |-> TRUE, channel |-> next_channel(current_channel_),
          last_hop_time_ms |-> current_time_ms]
  ELSE [ret |-> FALSE, channel |-> current_channel_, last_hop_time_ms |-> last_hop_time_ms_]

\* unsigned long is 32 bits wide on the ESP32; a value is kept as the pair
\* <<high 16 bits, low 16 bits>>
\* (x * 1000UL) for 0 <= x < 2^31
times_1000UL(x) ==
  LET pl == (x % 65536) * 1000
      ph == (x \div 65536) * 1000
  IN <<(ph + pl \div 65536) % 65536, pl % 65536>>

\* a - b on unsigned long
minus_UL(a, b) ==
  LET borrow == IF a[2] < b[2] THEN 1 ELSE 0
  IN <<(a[1] - b[1] - borrow + 65536) % 65536, (a[2] - b[2] + 65536) % 65536>>

\* a >= n for an unsigned long a and 0 <= n < 2^31
at_least_UL(a, n) ==
  \/ a[1] > n \div 65536
  \/ a[1] = n \div 65536 /\ a[2] >= n % 65536

\* time_until_next_hop_us: the value returned; the method is const
time_until_next_hop_us(current_time_ms) ==
  LET elapsed_us == minus_UL(times_1000UL(current_time_ms), times_1000UL(last_hop_time_ms_))
  IN IF at_least_UL(elapsed_us, hop_interval_us_) THEN 0
     ELSE hop_interval_us_ - (elapsed_us[1] * 65536 + elapsed_us[2])

HopBegin(interval_us) ==
  /\ UNCHANGED hop_others
  /\ hop_interval_us_' = interval_us
  /\ last_hop_time_ms_' = GET_TIME_MS(hop_now_us)
  /\ current_channel_' = "CHANNEL_2"
  /\ enabled_' = FALSE
  /\ hop_obs' = [NoHopObs EXCEPT !.op = "begin", !.ref_ms = GET_TIME_MS(hop_now_us),
                                  !.ref_us = hop_now_us]
  /\ UNCHANGED <<hop_now_us, hop_ticks>>

HopSetEnabled(enabled) ==
  /\ UNCHANGED hop_others
  /\ enabled_' = enabled
  /\ hop_obs' = IF enabled /\ ~enabled_
                  THEN [hop_obs EXCEPT !.op = "set_enabled", !.arg = 0, !.until = 0,
                                       !.hops = 0, !.en_us = hop_now_us]
                  ELSE [hop_obs EXCEPT !.op = "set_enabled", !.arg = 0, !.until = 0]
  /\ UNCHANGED <<current_channel_, last_hop_time_ms_, hop_interval_us_, hop_now_us, hop_ticks>>

\* update polled with the current millisecond reading
HopUpdate ==
  /\ UNCHANGED hop_others
  /\ \E r \in {update(GET_TIME_MS(hop_now_us))} :
        /\ current_channel_' = r.channel
        /\ last_hop_time_ms_' = r.last_hop_time_ms
        /\ hop_obs' = [hop_obs EXCEPT !.op = "update", !.arg = 0, !.until = 0, !.ret = r.ret,
                                      !.prev = current_channel_,
                                      !.hops = IF r.ret THEN @ + 1 ELSE @,
                                      !.ref_hops = IF r.ret THEN @ + 1 ELSE @]
  /\ UNCHANGED <<hop_interval_us_, enabled_, hop_now_us, hop_ticks>>

HopReset ==
  /\ UNCHANGED hop_others
  /\ current_channel_' = "CHANNEL_2"
  /\ last_hop_time_ms_' = GET_TIME_MS(hop_now_us)
  /\ hop_obs' = [hop_obs EXCEPT !.op = "reset", !.arg = 0, !.until = 0, !.ref_hops = 0,
                                !.ref_ms = GET_TIME_MS(hop_now_us), !.ref_us = hop_now_us]
  /\ UNCHANGED <<hop_interval_us_, enabled_, hop_now_us, hop_ticks>>

\* the hopper asked for the time left, at the current millisecond reading or
\* late_ms milliseconds after it (the caller supplies the reading)
HopTimeUntilNextHop(late_ms) ==
  /\ UNCHANGED hop_others
  /\ hop_obs' = [hop_obs EXCEPT
                   !.op = "time_until_next_hop_us",
                   !.arg = GET_TIME_MS(hop_now_us) + late_ms,
                   !.until = time_until_next_hop_us(GET_TIME_MS(hop_now_us) + late_ms)]
  /\ UNCHANGED <<current_channel_, last_hop_time_ms_, hop_interval_us_, enabled_,
                 hop_now_us, hop_ticks>>

\* time passes
HopTick(d) ==
  /\ UNCHANGED hop_others
  /\ hop_ticks < MaxHopTicks
  /\ hop_now_us' = hop_now_us + d
  /\ hop_ticks' = hop_ticks + 1
  /\ hop_obs' = [hop_obs EXCEPT !.op = "tick", !.arg = 0, !.until = 0]
  /\ UNCHANGED <<current_channel_, last_hop_time_ms_, hop_interval_us_, enabled_>>

HopNext ==
  \/ \E i \in HopIntervals : HopBegin(i)
  \/ \E e \in BOOLEAN : HopSetEnabled(e)
  \/ HopUpdate
  \/ HopReset
  \/ \E late_ms \in HopLateness : HopTimeUntilNextHop(late_ms)
  \/ \E d \in HopSteps : HopTick(d)

\* ------------------------------------------------------------------------
\* Discovery manager (iohome_2w.h / iohome_2w.cpp)
\* own_node_id_ and discovery_device_type_ are written by begin and
\* start_discovery and read by none of the operations below.
\* ------------------------------------------------------------------------
MAX_DISCOVERED_DEVICES == 32
ROLLER_SHUTTER == 0
DiscSources == {<<1, 2, 3>>, <<4, 5, 6>>}
DiscTimeouts == {5000}
DiscDataLens == {0, 3}
DiscRssis == {-70, -40}

\* op: the call just made; ret: its result; open: start_discovery was called
\* and neither stop_discovery nor begin since; seen: the distinct sources of
\* the responses ingested since start_discovery, in arrival order;
\* pre_*: the state before the call
NoDiscObs == [op |-> "none", ret |-> FALSE, open |-> FALSE, seen |-> <<>>,
              pre_state |-> "IDLE", pre_count |-> 0, pre_devices |-> <<>>, rssi |-> 0]

\* DiscoveryManager::DiscoveryManager
DiscInit ==
  /\ disc_state_ = "IDLE"
  /\ discovery_start_time_ = 0
  /\ discovery_timeout_ = 0
  /\ discovered_devices_ = <<>>
  /\ discovered_count_ = 0
  /\ disc_obs = NoDiscObs

\* a discovery response from src carrying data_len parameter bytes
response_frame(src, data_len) ==
  [ZeroFrame EXCEPT !.src_node = src, !.data_len = data_len,
                    !.data = [i \in 1..FRAME_MAX_DATA_SIZE |->
                                IF i <= data_len THEN 16 + i ELSE 0]]

\* the DiscoveredDevice written for frame
discovered_device(frame, rssi, time_ms) ==
  [node_id |-> frame.src_node,
   device_type |-> IF frame.data_len >= 2 THEN frame.data[1] ELSE ROLLER_SHUTTER,
   manufacturer |-> IF frame.data_len >= 2 THEN frame.data[2] ELSE 0,
   protocol_version |-> IF frame.data_len >= 3 THEN frame.data[3] ELSE 0,
   rssi |-> rssi,
   timestamp_ms |-> time_ms]

\* discovered_devices_[index] = device (index counted from 0)
store_device(devices, index, device) ==
  IF index < Len(devices) THEN [devices EXCEPT ![index + 1] = device]
  ELSE Append(devices, device)

\* the duplicate check: some valid entry has the frame's source
already_discovered(frame) ==
  \E i \in 1..discovered_count_ : discovered_devices_[i].node_id = frame.src_node

\* variant: a response from a listed source refreshes its entry
process_discovery_response_refreshing(frame, rssi, time_ms) ==
  IF already_discovered(frame)
    THEN [ret |-> FALSE, state |-> disc_state_,
          devices |-> [i \in 1..Len(discovered_devices_) |->
                         IF i <= discovered_count_
                            /\ discovered_devices_[i].node_id = frame.src_node
                           THEN discovered_device(frame, rssi, time_ms)
                           ELSE discovered_devices_[i]],
          count |-> discovered_count_]
  ELSE IF disc_state_ # "DISCOVERING" \/ discovered_count_ >= MAX_DISCOVERED_DEVICES
    THEN [ret |-> FALSE, state |-> disc_state_, devices |-> discovered_devices_,
          count |-> discovered_count_]
    ELSE [ret |-> TRUE, state |-> "FOUND",
          devices |-> store_device(discovered_devices_, discovered_count_,
                                   discovered_device(frame, rssi, time_ms)),
          count |-> discovered_count_ + 1]

\* variant: no duplicate check, and the session stays in DISCOVERING
process_discovery_response_nodedup(frame, rssi, time_ms) ==
  IF disc_state_ # "DISCOVERING" \/ discovered_count_ >= MAX_DISCOVERED_DEVICES
    THEN [ret |-> FALSE, state |-> disc_state_, devices |-> discovered_devices_,
          count |-> discovered_count_]
    ELSE [ret |-> TRUE, state |-> "DISCOVERING",
          devices |-> store_device(discovered_devices_, discovered_count_,
                                   discovered_device(frame, rssi, time_ms)),
          count |-> discovered_count_ + 1]

\* process_discovery_response: [ret, state, devices, count]; time_ms is the
\* GET_TIME_MS() reading stored in the entry
process_discovery_response(frame, rssi, time_ms) ==
  IF \/ disc_state_ # "DISCOVERING"
     \/ discovered_count_ >= MAX_DISCOVERED_DEVICES
     \/ already_discovered(frame)
    THEN [ret |-> FALSE, state |-> disc_state_, devices |-> discovered_devices_,
          count |-> discovered_count_]
    ELSE [ret |-> TRUE, state |-> "FOUND",
          devices |-> store_device(discovered_devices_, discovered_count_,
                                   discovered_device(frame, rssi, time_ms)),
          count |-> discovered_count_ + 1]

\* get_discovered_device: [ret, device]
get_discovered_device(index) ==
  IF index >= discovered_count_ THEN [ret |-> FALSE, device |-> <<>>]
  ELSE [ret |-> TRUE, device |-> discovered_devices_[index + 1]]

\* variant: stopping also forgets the entries
stop_discovery_clearing == [state |-> "IDLE", count |-> 0]

\* stop_discovery: [state, count]
stop_discovery == [state |-> "IDLE", count |-> discovered_count_]

DiscBegin ==
  /\ UNCHANGED disc_others
  /\ disc_state_' = "IDLE"
  /\ discovered_count_' = 0
  /\ disc_obs' = [NoDiscObs EXCEPT !.op = "begin"]
  /\ UNCHANGED <<discovery_start_time_, discovery_timeout_, discovered_devices_>>

StartDiscovery(timeout_ms) ==
  /\ UNCHANGED disc_others
  /\ disc_state_' = "DISCOVERING"
  /\ discovery_start_time_' = now_ms
  /\ discovery_timeout_' = timeout_ms
  /\ discovered_count_' = 0
  /\ disc_obs' = [NoDiscObs EXCEPT !.op = "start", !.open = TRUE]
  /\ UNCHANGED discovered_devices_

StopDiscovery ==
  /\ UNCHANGED disc_others
  /\ disc_state_' = stop_discovery.state
  /\ discovered_count_' = stop_discovery.count
  /\ disc_obs' = [disc_obs EXCEPT !.op = "stop", !.ret = FALSE, !.open = FALSE,
                                  !.pre_state = disc_state_,
                                  !.pre_count = discovered_count_,
                                  !.pre_devices = SubSeq(discovered_devices_, 1,
                                                         discovered_count_)]
  /\ UNCHANGED <<discovery_start_time_, discovery_timeout_, discovered_devices_>>

ProcessDiscoveryResponse(src, data_len, rssi) ==
  /\ UNCHANGED disc_others
  /\ \E r \in {process_discovery_response(response_frame(src, data_len), rssi, now_ms)} :
        /\ disc_state_' = r.state
        /\ discovered_devices_' = r.devices
        /\ discovered_count_' = r.count
        /\ disc_obs' = [disc_obs EXCEPT
              !.op = "response", !.ret = r.ret, !.rssi = rssi,
              !.seen = IF disc_obs.open /\ \A i \in 1..Len(@) : @[i] # src
                         THEN Append(@, src) ELSE @,
              !.pre_state = disc_state_,
              !.pre_count = discovered_count_,
              !.pre_devices = SubSeq(discovered_devices_, 1, discovered_count_)]
  /\ UNCHANGED <<discovery_start_time_, discovery_timeout_>>

DiscNext ==
  \/ DiscBegin
  \/ \E t \in DiscTimeouts : StartDiscovery(t)
  \/ StopDiscovery
  \/ \E src \in DiscSources, n \in DiscDataLens, rssi \in DiscRssis :
        ProcessDiscoveryResponse(src, n, rssi)
  \/ \E d \in ClockSteps : ClockAdvance(d)

\* ------------------------------------------------------------------------
\* Key transfer envelopes (iohome_crypto.cpp)
\* ------------------------------------------------------------------------
TRANSFER_KEY == <<52, 195, 70, 110, 216, 143, 78, 142, 22, 170, 71, 57, 73, 136, 67, 115>>

KtKeys == {[i \in 1..AES_KEY_SIZE |-> (a * i + b) % 256] : a \in {0, 1, 7, 255}, b \in {0, 3}}
KtNodes == {<<a, b, c>> : a \in {0, 171, 255}, b \in {0, 205}, c \in {0, 239}}
KtChallenges == {ChallengeA, ChallengeB, Zeros(HMAC_SIZE), [i \in 1..HMAC_SIZE |-> 85]}

NoKt == [op |-> "none", system_key |-> <<>>, binding |-> <<>>, encrypted_out |-> <<>>]

KtInit == kt = NoKt

\* encrypted_out[i] = system_key[i] ^ encrypted_iv[i]
xor_block(system_key, encrypted_iv) ==
  [i \in 1..AES_KEY_SIZE |-> Xor8(system_key[i], encrypted_iv[i])]

\* variant: the IV is the node address followed by zeros
encrypt_1w_key_padded(system_key, node_address) ==
  xor_block(system_key,
            aes128_encrypt(node_address \o Zeros(IV_SIZE - NODE_ID_SIZE), TRANSFER_KEY))

\* iv[i] = node_address[i % NODE_ID_SIZE]
encrypt_1w_key(system_key, node_address) ==
  xor_block(system_key,
            aes128_encrypt([i \in 1..IV_SIZE |-> node_address[((i - 1) % NODE_ID_SIZE) + 1]],
                           TRANSFER_KEY))

\* memset(iv, IV_PADDING, IV_SIZE); memcpy(&iv[10], challenge, HMAC_SIZE)
encrypt_2w_key(system_key, challenge) ==
  xor_block(system_key,
            aes128_encrypt([i \in 1..IV_SIZE |->
                              IF i <= 10 THEN IV_PADDING ELSE challenge[i - 10]],
                           TRANSFER_KEY))

Encrypt1wKey(system_key, node_address) ==
  /\ UNCHANGED kt_others
  /\ kt' = [op |-> "encrypt_1w_key", system_key |-> system_key, binding |-> node_address,
            encrypted_out |-> encrypt_1w_key(system_key, node_address)]

Encrypt2wKey(system_key, challenge) ==
  /\ UNCHANGED kt_others
  /\ kt' = [op |-> "encrypt_2w_key", system_key |-> system_key, binding |-> challenge,
            encrypted_out |-> encrypt_2w_key(system_key, challenge)]

KtNext ==
  \/ \E k \in KtKeys, n \in KtNodes : Encrypt1wKey(k, n)
  \/ \E k \in KtKeys, c \in KtChallenges : Encrypt2wKey(k, c)

\* ------------------------------------------------------------------------
\* send_command entered by two tasks (IoHomeControl.cpp): each task runs the
\* statements of send_command on its own tx_frame; rolling_code_ is the one
\* member they share.  rolling_code_++ is a load followed by a store.
\* ------------------------------------------------------------------------
MaxEntered == 3            \* send_command calls entered in all
Tasks == {1, 2}

TaskInit ==
  /\ task_pc = [t \in Tasks |-> "idle"]
  /\ task_frame_code = [t \in Tasks |-> 0]
  /\ task_loaded = [t \in Tasks |-> 0]
  /\ produced = <<>>
  /\ entered = 0

\* initialized_ check, init_frame .. set_command on the task's own frame
TaskEnter(t) ==
  /\ UNCHANGED task_others
  /\ ~trapped /\ initialized_ /\ is_1w_mode_
  /\ task_pc[t] = "idle"
  /\ entered < MaxEntered
  /\ task_pc' = [task_pc EXCEPT ![t] = "built"]
  /\ entered' = entered + 1
  /\ UNCHANGED <<ctl_vars, task_frame_code, task_loaded, produced>>

\* frame::set_rolling_code(&tx_frame, rolling_code_)
TaskSetRollingCode(t) ==
  /\ UNCHANGED task_others
  /\ task_pc[t] = "built"
  /\ task_frame_code' = [task_frame_code EXCEPT ![t] = rolling_code_]
  /\ task_pc' = [task_pc EXCEPT ![t] = "coded"]
  /\ UNCHANGED <<ctl_vars, task_loaded, produced, entered>>

\* rolling_code_++, the load
TaskLoadCounter(t) ==
  /\ UNCHANGED task_others
  /\ task_pc[t] = "coded"
  /\ task_loaded' = [task_loaded EXCEPT ![t] = rolling_code_]
  /\ task_pc' = [task_pc EXCEPT ![t] = "loaded"]
  /\ UNCHANGED <<ctl_vars, task_frame_code, produced, entered>>

\* rolling_code_++, the store
TaskStoreCounter(t) ==
  /\ UNCHANGED task_others
  /\ task_pc[t] = "loaded"
  /\ rolling_code_' = next_rolling_code(task_loaded[t])
  /\ task_pc' = [task_pc EXCEPT ![t] = "stored"]
  /\ UNCHANGED <<initialized_, is_1w_mode_, system_key_, own_node_id_, receiving_,
                 rx_callback_, trapped>>
  /\ UNCHANGED <<task_frame_code, task_loaded, produced, entered>>

\* finalize_frame and transmit_frame on the task's frame; the call returns
TaskFinalize(t) ==
  /\ UNCHANGED task_others
  /\ task_pc[t] = "stored"
  /\ produced' = Append(produced, task_frame_code[t])
  /\ task_pc' = [task_pc EXCEPT ![t] = "idle"]
  /\ UNCHANGED <<ctl_vars, task_frame_code, task_loaded, entered>>

TaskNext ==
  \/ Begin(OwnNode, KeyA, TRUE)
  \/ \E t \in Tasks : TaskEnter(t)
  \/ \E t \in Tasks : TaskSetRollingCode(t)
  \/ \E t \in Tasks : TaskLoadCounter(t)
  \/ \E t \in Tasks : TaskStoreCounter(t)
  \/ \E t \in Tasks : TaskFinalize(t)

\* ------------------------------------------------------------------------
\* Beacon handler (iohome_2w.cpp, BeaconHandler)
\* ------------------------------------------------------------------------
CTRL1_USE_BEACON == 128
SYNC_BEACON == 0
BeaconCtrl1 == {0, 64, 128, 143}
BeaconSources == {<<1, 2, 3>>, <<4, 5, 6>>}
BeaconParams == {<<>>, <<1>>, <<2, 7>>}
BeaconRssis == {-70, -40}
BeaconSnrs == {5, 9}

\* memset(&last_beacon_, 0, sizeof(BeaconInfo))
ZeroBeacon ==
  [node_id |-> Zeros(NODE_ID_SIZE), type |-> 0, data |-> Zeros(FRAME_MAX_DATA_SIZE),
   data_len |-> 0, rssi |-> 0, snr |-> 0, timestamp_ms |-> 0]

\* op: the call just made; ret: its result; info: the BeaconInfo written by
\* get_last_beacon; pre: <<beacon_received_, last_beacon_>> before the call;
\* latest: source, params, rssi and snr of the last frame fed with Ctrl1 bit 7
\* set since begin(); fed: number of such frames (counted up to 2); flagged:
\* whether the frame just fed had the bit set
NoBeaconObs ==
  [op |-> "none", ret |-> FALSE, info |-> NullPtr, pre |-> NullPtr, latest |-> NullPtr,
   fed |-> 0, flagged |-> FALSE]

BeaconInit ==
  /\ beacon_received_ = FALSE
  /\ last_beacon_ = ZeroBeacon
  /\ beacon_obs = NoBeaconObs

\* a received frame as the beacon handler sees it
beacon_frame(ctrl1, src, params) ==
  [ZeroFrame EXCEPT
     !.ctrl_byte_1 = ctrl1,
     !.src_node = src,
     !.data = [i \in 1..FRAME_MAX_DATA_SIZE |-> IF i <= Len(params) THEN params[i] ELSE 0],
     !.data_len = Len(params)]

\* BeaconInfo written by process_beacon for a frame that carries the flag
stored_beacon(frame, rssi, snr, time_ms) ==
  LET copy_len == IF frame.data_len < FRAME_MAX_DATA_SIZE THEN frame.data_len
                  ELSE FRAME_MAX_DATA_SIZE
  IN [node_id |-> frame.src_node,
      type |-> IF frame.data_len > 0 THEN frame.data[1] ELSE SYNC_BEACON,
      data |-> [i \in 1..FRAME_MAX_DATA_SIZE |->
                  IF i <= copy_len THEN frame.data[i] ELSE last_beacon_.data[i]],
      data_len |-> frame.data_len,
      rssi |-> rssi, snr |-> snr, timestamp_ms |-> time_ms]

\* result: [ret, last_beacon, received]
\* variant: the beacon flag of the frame is not looked at
process_beacon_any(frame, rssi, snr, time_ms) ==
  [ret |-> TRUE, last_beacon |-> stored_beacon(frame, rssi, snr, time_ms), received |-> TRUE]

process_beacon(frame, rssi, snr, time_ms) ==
  IF And8(frame.ctrl_byte_1, CTRL1_USE_BEACON) = 0
    THEN [ret |-> FALSE, last_beacon |-> last_beacon_, received |-> beacon_received_]
    ELSE [ret |-> TRUE, last_beacon |-> stored_beacon(frame, rssi, snr, time_ms),
          received |-> TRUE]

\* result: [ret, info]; info is left unwritten when no beacon is stored
get_last_beacon ==
  IF ~beacon_received_ THEN [ret |-> FALSE, info |-> NullPtr]
  ELSE [ret |-> TRUE, info |-> last_beacon_]

BeaconBegin ==
  /\ beacon_received_' = FALSE
  /\ beacon_obs' = [NoBeaconObs EXCEPT !.op = "begin",
                                       !.pre = <<beacon_received_, last_beacon_>>]
  /\ UNCHANGED last_beacon_
  /\ UNCHANGED beacon_others

ProcessBeacon(ctrl1, src, params, rssi, snr) ==
  /\ \E r \in {process_beacon(beacon_frame(ctrl1, src, params), rssi, snr, now_ms)} :
       /\ beacon_received_' = r.received
       /\ last_beacon_' = r.last_beacon
       /\ beacon_obs' =
            [op |-> "process_beacon", ret |-> r.ret, info |-> NullPtr,
             pre |-> <<beacon_received_, last_beacon_>>,
             latest |-> IF ctrl1 >= 128
                          THEN [src |-> src, params |-> params, rssi |-> rssi, snr |-> snr]
                          ELSE beacon_obs.latest,
             fed |-> IF ctrl1 >= 128 /\ beacon_obs.fed < 2 THEN beacon_obs.fed + 1
                     ELSE beacon_obs.fed,
             flagged |-> ctrl1 >= 128]
  /\ UNCHANGED beacon_others

GetLastBeacon ==
  /\ \E r \in {get_last_beacon} :
       beacon_obs' = [beacon_obs EXCEPT !.op = "get_last_beacon", !.ret = r.ret,
                                        !.info = r.info,
                                        !.pre = <<beacon_received_, last_beacon_>>]
  /\ UNCHANGED <<beacon_received_, last_beacon_>>
  /\ UNCHANGED beacon_others

BeaconNext ==
  \/ BeaconBegin
  \/ \E ctrl1 \in BeaconCtrl1, src \in BeaconSources, params \in BeaconParams,
        rssi \in BeaconRssis, snr \in BeaconSnrs :
       ProcessBeacon(ctrl1, src, params, rssi, snr)
  \/ GetLastBeacon

\* ------------------------------------------------------------------------
\* Running checksum and IV construction, called on their own
\* ------------------------------------------------------------------------
MaxIvLen == 22             \* lengths 1..MaxIvLen of cmd | params are exercised
IvSeeds == {50, 200}
IvCodes == {7, 4660, 65535}
IvPairs == {<<0, 0>>, <<128, 255>>}

\* cmd | params, n bytes in all
IvData(seed, n) == <<CMD_SET_POSITION>> \o ParamsOf(seed, n - 1)

NoIv == [op |-> "none", data |-> <<>>, binding |-> <<>>, out |-> <<>>]

IvInit == iv_obs = NoIv

\* compute_checksum(frame_byte, chksum1, chksum2) on the accumulators chk
ComputeChecksum(frame_byte, chk) ==
  /\ iv_obs' = [op |-> "compute_checksum", data |-> <<frame_byte>>, binding |-> chk,
                out |-> compute_checksum(frame_byte, chk)]
  /\ UNCHANGED iv_others

\* construct_iv_1w as create_1w_hmac calls it from finalize_frame: the
\* sequence number is the frame's rolling_code field written by set_rolling_code
ConstructIv1w(frame_data, code) ==
  /\ iv_obs' = [op |-> "construct_iv_1w", data |-> frame_data, binding |-> code,
                out |-> construct_iv_1w(frame_data, Len(frame_data),
                                        set_rolling_code(ZeroFrame, code).rolling_code)]
  /\ UNCHANGED iv_others

ConstructIv2w(frame_data, challenge) ==
  /\ iv_obs' = [op |-> "construct_iv_2w", data |-> frame_data, binding |-> challenge,
                out |-> construct_iv_2w(frame_data, Len(frame_data), challenge)]
  /\ UNCHANGED iv_others

IvNext ==
  \/ \E frame_byte \in 0..255, chk \in IvPairs : ComputeChecksum(frame_byte, chk)
  \/ \E seed \in IvSeeds, n \in 1..MaxIvLen, code \in IvCodes :
       ConstructIv1w(IvData(seed, n), code)
  \/ \E seed \in IvSeeds, n \in 1..MaxIvLen, challenge \in Challenges :
       ConstructIv2w(IvData(seed, n), challenge)

Init == CodecInit /\ CtlInit /\ AuthInit /\ CrcInit /\ HopInit /\ DiscInit /\ KtInit /\ TaskInit /\ BeaconInit /\ IvInit

Next == CodecNext

Spec == Init /\ [][Next]_vars

SendSpec == Init /\ [][SendNext]_vars

AuthSpec == Init /\ [][AuthNext]_vars

\* time keeps passing; nothing obliges anyone to call verify_challenge_response
AuthFairSpec == AuthSpec /\ WF_vars(\E d \in ClockSteps : ClockAdvance(d))


\* ------------------------------------------------------------------------
\* Receive path
\* ------------------------------------------------------------------------
RxIds == {"rc5", "rc6", "rc7", "rc200", "badkey", "badcrc", "twoway"}

RxCode == [id \in RxIds |->
  CASE id = "rc5" -> 5 [] id = "rc6" -> 6 [] id = "rc7" -> 7 [] id = "rc200" -> 200
    [] id = "badkey" -> 8 [] id = "badcrc" -> 9 [] OTHER -> 0]

RxFrame == [id \in RxIds |->
  CASE id = "badkey" -> peer_frame(TRUE, CMD_SET_POSITION, <<50, 0>>, RxCode[id], KeyB, NullPtr)
    [] id = "badcrc" ->
         bad_crc(peer_frame(TRUE, CMD_SET_POSITION, <<50, 0>>, RxCode[id], KeyA, NullPtr))
    [] id = "twoway" -> peer_frame(FALSE, CMD_SET_POSITION, <<50, 0>>, 0, KeyA, ChallengeA)
    [] OTHER -> peer_frame(TRUE, CMD_SET_POSITION, <<50, 0>>, RxCode[id], KeyA, NullPtr)]

\* what readData leaves in the 32-byte buffer: the frame's bytes, zero filled
RxBuffer == [id \in RxIds |->
  wire_of(RxFrame[id]) \o Zeros(FRAME_MAX_SIZE - Len(wire_of(RxFrame[id])))]

\* the values readData may return for that frame: an error, the number of
\* bytes of the frame, or the size of the buffer it filled
RxLens(id) == {-1, Len(wire_of(RxFrame[id])), FRAME_MAX_SIZE}

\* check_received after scanChannel reported a preamble: the set of outcomes
\* [ret, frame, callbacks, validated, hmac]; ret = "trap" when validate_frame traps
received_dropped ==
  [ret |-> "false", frame |-> ZeroFrame, callbacks |-> 0,
   validated |-> FALSE, hmac |-> FALSE]

\* check_received from parse_frame's result p on
received_parsed(p) ==
  IF ~p.ok THEN {received_dropped}
  ELSE {[ret |-> o,
         frame |-> p.frame,
         callbacks |-> IF o = "true" /\ rx_callback_ # "nullptr" THEN 1 ELSE 0,
         validated |-> TRUE,
         hmac |-> validate_reaches_hmac(p.frame, system_key_)] :
        o \in validate_frame_outcomes(p.frame, system_key_, NullPtr)}

check_received(buffer, len) ==
  IF len < 0 THEN {received_dropped}
  ELSE received_parsed(parse_frame(buffer, len))

\* one poll of check_received; id = "none" when scanChannel finds no preamble
CheckReceived(id, len) ==
  /\ ~trapped
  /\ IF ~receiving_ \/ id = "none"
       THEN /\ last_rx' = [done |-> TRUE, ret |-> "false", id |-> "none", callbacks |-> 0]
            /\ UNCHANGED <<rx_hist, val, trapped>>
       ELSE \E r \in check_received(RxBuffer[id], len) :
              /\ last_rx' = [done |-> TRUE, ret |-> r.ret, id |-> id,
                             callbacks |-> r.callbacks]
              /\ trapped' = (r.ret = "trap")
              /\ val' = IF r.validated
                          THEN [done |-> TRUE, mode2w |-> ~r.frame.is_1w_mode,
                                key |-> system_key_, challenge |-> NullPtr,
                                outcome |-> r.ret, hmac |-> r.hmac]
                          ELSE val
              /\ rx_hist' = IF r.ret = "true" /\ r.frame.is_1w_mode
                              THEN [prev |-> rx_hist.last,
                                    last |-> r.frame.rolling_code[1]
                                             + 256 * r.frame.rolling_code[2]]
                              ELSE rx_hist
  /\ UNCHANGED <<initialized_, is_1w_mode_, system_key_, own_node_id_, rolling_code_,
                 receiving_, rx_callback_>>
  /\ UNCHANGED <<ext_vars, codec_vars, send_vars, auth_vars, clock_vars, last_verify>>

RecvNext ==
  \/ \E m \in BOOLEAN : Begin(OwnNode, KeyA, m)
  \/ \E cb \in {"nullptr", "on_frame"}, ok \in BOOLEAN : StartReceive(cb, ok)
  \/ StopReceive
  \/ CheckReceived("none", 0)
  \/ \E id \in RxIds : \E len \in RxLens(id) : CheckReceived(id, len)

RecvSpec == Init /\ [][RecvNext]_vars

\* a 2W controller next to an authentication manager that runs a
\* challenge-response session with the peer
SessionSendNext ==
  \/ \E m \in BOOLEAN : Begin(OwnNode, KeyA, m)
  \/ AuthBegin(KeyA)
  \/ \E c \in Challenges : GenerateChallenge(c)
  \/ \E id \in {"resp_A", "resp_B"} : VerifyChallengeResponse(id)
  \/ AuthReset
  \/ \E n \in {0, 2, 22}, tx_ok \in BOOLEAN :
       SendCommand(PeerNode, CMD_SET_POSITION, ParamsOf(50, n), tx_ok, TRUE)

SessionSendSpec == Init /\ [][SessionSendNext]_vars

WrapperSpec == Init /\ [][WrapperNext]_vars

KtSpec == Init /\ [][KtNext]_vars

ParseSpec == Init /\ [][ParseNext]_vars

RebuildSpec == Init /\ [][RebuildNext]_vars

TaskSpec == Init /\ [][TaskNext]_vars

ResponderSpec == Init /\ [][ResponderNext]_vars

BeaconSpec == Init /\ [][BeaconNext]_vars

IvSpec == Init /\ [][IvNext]_vars

CrcSpec == Init /\ [][CrcNext]_vars

HopSpec == Init /\ [][HopNext]_vars

DiscSpec == Init /\ [][DiscNext]_vars

\* time keeps passing; nothing obliges anyone to call into the discovery manager
DiscFairSpec == DiscSpec /\ WF_vars(\E d \in ClockSteps : ClockAdvance(d))

\* ========================================================================
\* Properties
\* ========================================================================
CrcOk(frame) == verify_crc16(wire_of(frame), Len(wire_of(frame)))

TagBoundTo(frame, challenge, system_key) ==
  frame.hmac = create_2w_hmac(frame_data_of(frame), Len(frame_data_of(frame)),
                              challenge, system_key)

\* C1: round trip -- parse_frame given exactly the bytes serialize_frame
\* emitted for a finalized frame succeeds and returns the original frame.
C1_RoundTrip ==
  (rx.done /\ rx.exact) => (rx.ok /\ rx.frame = tx_frame)

\* C2: after init_frame + set_command the low 5 bits of Ctrl0 are
\* total_len - 11 with total_len = 11 + len(params) + (2 if 1W), and bit 5 is
\* set exactly for 2W frames.
C2_Ctrl0Length ==
  phase = "built" =>
    /\ And8(tx_frame.ctrl_byte_0, CTRL0_LENGTH_MASK)
         = (11 + tx_frame.data_len + (IF tx_frame.is_1w_mode THEN 2 ELSE 0)) - 11
    /\ (And8(tx_frame.ctrl_byte_0, CTRL0_PROTOCOL_MASK) # 0) <=> ~tx_frame.is_1w_mode

\* C3: every frame set_command accepts has a total length in 11..32, so
\* finalize_frame (given the binding its mode needs) and serialize_frame into
\* a FRAME_MAX_SIZE buffer succeed.
C3_BuiltFramesFit ==
  /\ phase \in {"built", "finalized", "finalize_failed"} =>
       (tx_frame.frame_length >= FRAME_MIN_SIZE /\ tx_frame.frame_length <= FRAME_MAX_SIZE)
  /\ phase = "finalize_failed" => (~tx_frame.is_1w_mode /\ bound_to = NullPtr)

\* C4 (as claimed): the rolling codes of the frames actually transmitted in
\* 1W mode are consecutive modulo 2^16, whatever calls failed in between.
C4_ConsecutiveCodes ==
  (tx_hist.prev >= 0 /\ tx_hist.last >= 0) =>
     tx_hist.last = (tx_hist.prev + 1) % 65536

\* C4 (amended): each transmitted rolling code is the previously transmitted
\* one plus 1 plus the number of send_command calls in between that consumed
\* a code without transmitting (failed at finalize or at the radio), mod 2^16.
C4_CodesAdvancePerConsumingCall ==
  (tx_hist.prev >= 0 /\ tx_hist.last >= 0) =>
     tx_hist.last = (tx_hist.prev + 1 + tx_hist.skipped) % 65536

C4_Witness ==
  tx_hist.prev = 65535 /\ tx_hist.skipped = 1 /\ tx_hist.last = 1

\* C5: a valid 1W frame is accepted only if its rolling code is 1..100 ahead
\* (mod 2^16) of the last one accepted from that source; a replayed frame is
\* not accepted again.
C5_ReplayWindow ==
  (rx_hist.prev >= 0 /\ rx_hist.last >= 0) =>
     ((rx_hist.last - rx_hist.prev) % 65536) \in 1..100

\* C6: verify_challenge_response succeeds iff the manager is in
\* CHALLENGE_SENT, the command is 0x3D, at most 5000 ms elapsed, and the
\* frame's CRC and tag validate under the system key with the stored
\* challenge as binding; the state becomes AUTHENTICATED exactly on success.
C6_VerifyIff ==
  last_verify.done =>
    LET f == AuthFrame[last_verify.id]
    IN /\ last_verify.ret <=>
            /\ last_verify.pre = "CHALLENGE_SENT"
            /\ f.command_id = CMD_CHALLENGE_RESPONSE
            /\ last_verify.elapsed <= CHALLENGE_TIMEOUT_MS
            /\ CrcOk(f)
            /\ TagBoundTo(f, last_verify.challenge, auth_key_)
       /\ last_verify.ret <=>
            (last_verify.pre # "AUTHENTICATED" /\ last_verify.post = "AUTHENTICATED")

\* C7 (as claimed): an invalid response received in CHALLENGE_SENT moves the
\* manager to IDLE.
C7_InvalidClosesSession ==
  (last_verify.done /\ last_verify.pre = "CHALLENGE_SENT" /\ ~last_verify.ret) =>
     last_verify.post = "IDLE"

\* C7 (amended): an invalid response received in CHALLENGE_SENT within the
\* timeout leaves the manager in CHALLENGE_SENT with the stored challenge and
\* its timestamp untouched; only an expired challenge moves it to IDLE.
C7_InvalidKeepsSession ==
  (last_verify.done /\ last_verify.pre = "CHALLENGE_SENT" /\ ~last_verify.ret) =>
     IF last_verify.elapsed <= CHALLENGE_TIMEOUT_MS
       THEN /\ last_verify.post = "CHALLENGE_SENT"
            /\ state_ = "CHALLENGE_SENT"
            /\ current_challenge_ = last_verify.challenge
            /\ elapsed_ms(now_ms, challenge_timestamp_) = last_verify.elapsed
       ELSE last_verify.post = "IDLE"

C7_Witness ==
  /\ last_verify.done
  /\ last_verify.pre = "CHALLENGE_SENT"
  /\ last_verify.id = "resp_badtag"
  /\ last_verify.elapsed <= CHALLENGE_TIMEOUT_MS
  /\ state_ = "CHALLENGE_SENT"

\* C8: only a response whose tag is bound to the challenge stored by the
\* latest generate_challenge authenticates; one bound to an earlier, different
\* challenge is rejected.
C8_OnlyNewestChallenge ==
  (last_verify.done /\ last_verify.ret) =>
     TagBoundTo(AuthFrame[last_verify.id], current_challenge_, auth_key_)

\* C9 (as claimed): a challenge that is still pending after more than 5000 ms
\* is eventually timed out without any verify_challenge_response call.
ChallengeExpired ==
  /\ state_ = "CHALLENGE_SENT"
  /\ elapsed_ms(now_ms, challenge_timestamp_) > CHALLENGE_TIMEOUT_MS

C9_TimeoutEventuallyIdle == ChallengeExpired ~> ~ChallengeExpired

\* C9 (amended): expiry is enforced only when a response is checked -- a
\* verify_challenge_response call made more than 5000 ms after
\* generate_challenge fails, whatever the frame, and moves the manager from
\* CHALLENGE_SENT to IDLE.
C9_ExpiredChallengeFailsOnVerify ==
  (last_verify.done /\ last_verify.pre = "CHALLENGE_SENT"
     /\ last_verify.elapsed > CHALLENGE_TIMEOUT_MS) =>
       (~last_verify.ret /\ last_verify.post = "IDLE" /\ state_ = "IDLE")

C9_Witness ==
  /\ last_verify.done
  /\ last_verify.pre = "CHALLENGE_SENT"
  /\ last_verify.elapsed > CHALLENGE_TIMEOUT_MS
  /\ last_verify.id = "resp_A"
  /\ last_verify.challenge = ChallengeA
  /\ state_ = "IDLE"

\* C10: validate_frame on a 2W frame with a key and no challenge returns
\* false without entering the tag computation.
C10_MissingChallengeRejected ==
  (val.done /\ val.mode2w /\ val.key # NullPtr /\ val.challenge = NullPtr) =>
     (val.outcome = "false" /\ ~val.hmac)

\* C11: a frame that finalize_frame completed under key k (bound to its own
\* rolling code in 1W, to challenge c in 2W) passes validate_frame under the
\* same k and the same c: the call reaches the tag comparison and returns true.
C11_FinalizeThenValidate ==
  (val.done /\ phase = "finalized" /\ val.key = KeyA
     /\ (val.mode2w => val.challenge = bound_to)) =>
       (val.outcome = "true" /\ val.hmac)

C11_Witness ==
  /\ val.done /\ phase = "finalized" /\ val.mode2w
  /\ val.key = KeyA /\ val.challenge = ChallengeA /\ bound_to = ChallengeA
  /\ val.outcome = "true" /\ val.hmac

\* CRC-16/KERMIT by its definition: the message bits, least significant bit
\* of each byte first, are shifted one at a time through a 16-bit register
\* that starts at 0; when the bit shifted out differs from the message bit
\* the register is XORed with 0x8408; the register is the result as it is.
RECURSIVE kermit_bit_serial(_, _, _, _)
kermit_bit_serial(msg, i, bit, reg) ==
  IF i > Len(msg) THEN reg
  ELSE LET differs == ((reg % 2) + ((msg[i] \div (2 ^ bit)) % 2)) % 2 = 1
           shifted == IF differs THEN Xor16(reg \div 2, 33800) ELSE reg \div 2
       IN IF shifted >= 0
            THEN kermit_bit_serial(msg, IF bit = 7 THEN i + 1 ELSE i, (bit + 1) % 8, shifted)
            ELSE 0

\* C12: verify_crc16(buf, n) is true iff n >= 2 and the last two of the n
\* bytes, read little-endian, equal the CRC-16/KERMIT of the first n - 2.
C12_VerifyCrcIff ==
  crc_res.op = "verify" =>
    (crc_res.ok <=>
       (/\ crc_res.n >= 2
        /\ crc_buf[crc_res.n - 1] + 256 * crc_buf[crc_res.n]
             = kermit_bit_serial(SubSeq(crc_buf, 1, crc_res.n - 2), 1, 0, 0)))

C12_Witness ==
  /\ crc_res.op = "verify" /\ crc_res.ok
  /\ crc_res.n = 5 /\ crc_buf[1] = 49 /\ crc_buf[3] = 255

\* C13 (as claimed): compute_crc16 over "123456789" is 0x8921, stored on the
\* wire as 21 89.
C13_CheckValue8921 ==
  (crc_res.op = "compute" /\ crc_buf = CheckString) =>
     (crc_res.value = 35105 /\ crc_res.wire = <<33, 137>>)

\* C13 (amended): compute_crc16 over "123456789" is 0x2189, stored on the
\* wire least significant byte first as 89 21.
C13_CheckValue2189 ==
  (crc_res.op = "compute" /\ crc_buf = CheckString) =>
     (crc_res.value = 8585 /\ crc_res.wire = <<137, 33>>)

C13_Witness ==
  crc_res.op = "compute" /\ crc_buf = CheckString /\ crc_res.n = 9 /\ crc_res.value = 8585

\* the successor of a channel in the cycle Ch1 -> Ch2 -> Ch3 -> Ch1
CycleSuccessor(channel) ==
  CASE channel = "CHANNEL_1" -> "CHANNEL_2"
    [] channel = "CHANNEL_2" -> "CHANNEL_3"
    [] channel = "CHANNEL_3" -> "CHANNEL_1"

\* C14: with hopping enabled, every hop moves to the next
\* channel of the cycle, and when update has just been polled the number of
\* hops made since enabling is the number of whole dwells elapsed since then.
C14_OneHopPerDwell ==
  (hop_obs.op = "update" /\ enabled_ /\ hop_obs.en_us >= 0) =>
     /\ hop_obs.ret => current_channel_ = CycleSuccessor(hop_obs.prev)
     /\ hop_obs.hops = (hop_now_us - hop_obs.en_us) \div hop_interval_us_

\* C15: started on Ch2 at t = 0 with D = 2700 us and hopping enabled, and
\* polled at these instants, the hopper does not hop at 2699 us, hops to Ch3
\* at 2700 us, to Ch1 at 5400 us and to Ch2 at 8100 us.
C15_MicrosecondHops ==
  (/\ hop_obs.op = "update" /\ enabled_
   /\ hop_obs.ref_us = 0 /\ hop_obs.en_us = 0 /\ hop_interval_us_ = 2700) =>
     /\ hop_now_us = 2699 => (~hop_obs.ret /\ current_channel_ = "CHANNEL_2")
     /\ hop_now_us = 2700 => (hop_obs.ret /\ current_channel_ = "CHANNEL_3")
     /\ (hop_now_us = 5400 /\ hop_obs.prev = "CHANNEL_3") =>
          (hop_obs.ret /\ current_channel_ = "CHANNEL_1")
     /\ (hop_now_us = 8100 /\ hop_obs.prev = "CHANNEL_1") =>
          (hop_obs.ret /\ current_channel_ = "CHANNEL_2")

\* C16: whenever hopping is disabled the current channel is Ch2.
C16_DisabledPinsCh2 ==
  ~enabled_ => current_channel_ = "CHANNEL_2"

\* the sources of the valid entries of the discovered list, in order
ListedSources == [i \in 1..discovered_count_ |-> discovered_devices_[i].node_id]

\* C17: while a discovery session is open, the list holds exactly the
\* distinct sources ingested since start_discovery (up to 32), in arrival order.
C17_AllNewSourcesListed ==
  (disc_obs.open /\ Len(disc_obs.seen) <= 32) => ListedSources = disc_obs.seen

ListKept ==
  /\ discovered_count_ = disc_obs.pre_count
  /\ SubSeq(discovered_devices_, 1, discovered_count_) = disc_obs.pre_devices
  /\ \A i \in 0..(disc_obs.pre_count - 1) :
        get_discovered_device(i) = [ret |-> TRUE, device |-> disc_obs.pre_devices[i + 1]]

\* C19 (as claimed): stop_discovery moves the session to Complete and keeps
\* the list; responses ingested after stop are ignored.
C19_StopCompletes ==
  /\ disc_obs.op = "stop" => (disc_state_ = "COMPLETE" /\ ListKept)
  /\ (disc_obs.op = "response" /\ ~disc_obs.open) => (~disc_obs.ret /\ ListKept)

\* C19 (amended): stop_discovery moves the session to IDLE (there is no
\* Complete state) and keeps the list; responses ingested after stop are
\* ignored.
C19_StopIdles ==
  /\ disc_obs.op = "stop" => (disc_state_ = "IDLE" /\ ListKept)
  /\ (disc_obs.op = "response" /\ ~disc_obs.open) =>
        (~disc_obs.ret /\ disc_state_ = "IDLE" /\ ListKept)

C19_Witness ==
  /\ disc_obs.op = "stop" /\ disc_obs.pre_state = "FOUND"
  /\ discovered_count_ = 1 /\ get_discovered_device(0).ret

\* a session still in DISCOVERING although its timeout has elapsed
DiscoveryExpired ==
  disc_state_ = "DISCOVERING" /\ now_ms - discovery_start_time_ > discovery_timeout_

\* C20: once timeout_ms has elapsed since start_discovery the session
\* eventually leaves DISCOVERING on its own.
C20_TimeoutEndsSession == DiscoveryExpired ~> ~DiscoveryExpired

\* the fields of the frame send_command handed to the radio, read at their
\* places in the transmitted bytes: destination, source, command id followed
\* by the parameters, and the tag
HandedDest == SubSeq(last_send.bytes, 3, 5)
HandedSrc == SubSeq(last_send.bytes, 6, 8)
HandedData ==
  SubSeq(last_send.bytes, 9,
         Len(last_send.bytes) - HMAC_SIZE - CRC_SIZE
           - (IF last_send.is_1w THEN ROLLING_CODE_SIZE ELSE 0))
HandedTag ==
  SubSeq(last_send.bytes, Len(last_send.bytes) - CRC_SIZE - HMAC_SIZE + 1,
         Len(last_send.bytes) - CRC_SIZE)

\* C21: in 2W mode no send_command consumes a rolling code; with an
\* Authenticated session the frame is built, tagged with the session's
\* challenge and handed to the radio; without a session send_command returns
\* an error and hands nothing to the radio.
C21_TwoWaySendNeedsSession ==
  (last_send.done /\ ~last_send.is_1w /\ ~is_1w_mode_
     /\ last_send.stage \notin {"not_initialized", "set_command"}) =>
     /\ rolling_code_ = last_send.rc
     /\ IF state_ = "AUTHENTICATED"
          THEN /\ last_send.bytes # <<>>
               /\ HandedTag = create_2w_hmac(HandedData, Len(HandedData),
                                             current_challenge_, system_key_)
          ELSE ~last_send.ret /\ last_send.bytes = <<>>

\* C22: the four wrappers send four distinct commands to dest from the
\* controller's own node id: set_position 0x60 with params [pct, 0x00], stop
\* 0x61 with params [0x00], open 0x62 and close 0x63.
C22_WrapperCommands ==
  (last_send.bytes # <<>>
     /\ last_send.call[1] \in {"set_position", "stop", "open", "close"}) =>
     /\ HandedDest = last_send.call[2]
     /\ HandedSrc = own_node_id_
     /\ last_send.call[1] = "set_position" => HandedData = <<CMD_SET_POSITION, last_send.call[3], 0>>
     /\ last_send.call[1] = "stop" => HandedData = <<CMD_STOP, 0>>
     /\ last_send.call[1] = "open" => HandedData[1] = CMD_OPEN
     /\ last_send.call[1] = "close" => HandedData[1] = CMD_CLOSE

\* the receiver's side: the envelope XORed with AES(TransferKey, iv)
Recovered(iv) ==
  [i \in 1..AES_KEY_SIZE |-> Xor8(kt.encrypted_out[i], aes128_encrypt(iv, TRANSFER_KEY)[i])]

\* C23: XOR-ing the envelope of encrypt_1w_key(K, N) with AES(TransferKey, IV),
\* IV = N0 N1 N2 N0 N1 N2 ... N0, recovers K; likewise for encrypt_2w_key with
\* IV = ten bytes 0x55 followed by the 6-byte challenge.
C23_EnvelopeRoundTrip ==
  /\ kt.op = "encrypt_1w_key" =>
       Recovered(<<kt.binding[1], kt.binding[2], kt.binding[3],
                   kt.binding[1], kt.binding[2], kt.binding[3],
                   kt.binding[1], kt.binding[2], kt.binding[3],
                   kt.binding[1], kt.binding[2], kt.binding[3],
                   kt.binding[1], kt.binding[2], kt.binding[3],
                   kt.binding[1]>>) = kt.system_key
  /\ kt.op = "encrypt_2w_key" =>
       Recovered(<<85, 85, 85, 85, 85, 85, 85, 85, 85, 85>> \o kt.binding) = kt.system_key

C23_Witness ==
  /\ kt.op = "encrypt_1w_key"
  /\ kt.binding = <<171, 205, 239>>
  /\ kt.system_key = [i \in 1..AES_KEY_SIZE |-> (7 * i + 3) % 256]
  /\ kt.encrypted_out # kt.system_key

\* what the first byte of the buffer in wire declares: the total length, the
\* mode, and the parameter length left once the fixed-size fields (control
\* bytes, destination, source, command, rolling code in 1W, tag, CRC) are
\* taken from the total
DeclaredLen == And8(wire.bytes[1], CTRL0_LENGTH_MASK) + 11
DeclaredOneWay == And8(wire.bytes[1], CTRL0_PROTOCOL_MASK) = 0
ImpliedParamsLen ==
  DeclaredLen - (2 + 3 + 3 + 1 + (IF DeclaredOneWay THEN 2 ELSE 0) + 6 + 2)

\* the fields of rx.frame are the bytes of the buffer at their offsets
FieldsAtOffsets(n) ==
  /\ rx.frame.ctrl_byte_0 = wire.bytes[1] /\ rx.frame.ctrl_byte_1 = wire.bytes[2]
  /\ rx.frame.dest_node = SubSeq(wire.bytes, 3, 5)
  /\ rx.frame.src_node = SubSeq(wire.bytes, 6, 8)
  /\ rx.frame.command_id = wire.bytes[9]
  /\ rx.frame.data_len = n
  /\ SubSeq(rx.frame.data, 1, n) = SubSeq(wire.bytes, 10, 9 + n)
  /\ rx.frame.is_1w_mode = DeclaredOneWay
  /\ rx.frame.frame_length = DeclaredLen

\* C24: parse_frame fails on fewer than 11 bytes, on fewer bytes than the
\* total length declared in Ctrl0, and when the declared length implies a
\* parameter length outside 0..21; on every other buffer it succeeds with the
\* fields read at their fixed offsets.
C24_ParseOutcomes ==
  rx.done =>
    IF wire.len < 11 THEN ~rx.ok
    ELSE IF wire.len < DeclaredLen THEN ~rx.ok
    ELSE IF ImpliedParamsLen < 0 \/ ImpliedParamsLen > 21 THEN ~rx.ok
    ELSE rx.ok /\ FieldsAtOffsets(ImpliedParamsLen)

\* C25: a set_command call that fails (more than 21 parameter bytes) leaves
\* the frame as it was: command id, params, params length, total length and
\* Ctrl0 keep their values.
C25_RejectedSetCommandKeepsFrame ==
  [][phase' = "rejected" =>
       /\ tx_frame'.command_id = tx_frame.command_id
       /\ tx_frame'.data = tx_frame.data
       /\ tx_frame'.data_len = tx_frame.data_len
       /\ tx_frame'.frame_length = tx_frame.frame_length
       /\ tx_frame'.ctrl_byte_0 = tx_frame.ctrl_byte_0
       /\ tx_frame' = tx_frame]_vars

C25_Witness ==
  /\ phase = "rejected"
  /\ tx_frame.command_id = CMD_SET_POSITION
  /\ tx_frame.data_len = 2
  /\ tx_frame.frame_length = total_length(tx_frame.is_1w_mode, 2)

\* C27: the number of bytes serialize_frame writes (its return value) equals
\* the frame's declared total length: the frame_length set by set_command and
\* the length parse_frame derives from Ctrl0.
C27_SerializedLengthIsDeclared ==
  (phase = "finalized" /\ wire.len > 0) =>
     /\ wire.len = Len(wire.bytes)
     /\ wire.len = tx_frame.frame_length
     /\ wire.len = get_frame_length(tx_frame.ctrl_byte_0)

\* the rolling code carried by the 1W frame handed to the radio
HandedRollingCode ==
  last_send.bytes[Len(last_send.bytes) - CRC_SIZE - HMAC_SIZE - 1]
    + 256 * last_send.bytes[Len(last_send.bytes) - CRC_SIZE - HMAC_SIZE]

\* C28: when a 1W send_command has handed a frame carrying rolling code rc to
\* the radio, the stored counter is rc + 1 modulo 2^16, whether or not the
\* radio's transmit succeeded.
C28_CounterAdvancedBeforeTransmit ==
  (last_send.done /\ last_send.is_1w /\ last_send.bytes # <<>>) =>
     /\ HandedRollingCode = last_send.rc
     /\ rolling_code_ = (HandedRollingCode + 1) % 65536

C28_Witness ==
  /\ last_send.done /\ last_send.is_1w /\ last_send.stage = "radio"
  /\ HandedRollingCode = 65535
  /\ rolling_code_ = 0

\* C26: send_command calls interleaved on one controller never produce two
\* frames carrying the same rolling code.
C26_NoRollingCodeTwice ==
  \A i, j \in 1..Len(produced) : i # j => produced[i] # produced[j]

\* C29: a create_challenge_response call builds a 2W 0x3D frame whose 6
\* parameter bytes and tag binding are the received challenge, and leaves the
\* manager's state, stored challenge and challenge timestamp as they were.
C29_ResponderKeepsNoChallenge ==
  [][(phase' \in {"response", "response_failed"}
        /\ <<tx_frame, phase, bound_to>>' # <<tx_frame, phase, bound_to>>) =>
       /\ phase' = "response"
       /\ ~tx_frame'.is_1w_mode
       /\ tx_frame'.command_id = 61
       /\ tx_frame'.data_len = 6
       /\ SubSeq(tx_frame'.data, 1, 6) = bound_to'
       /\ TagBoundTo(tx_frame', bound_to', auth_key_)
       /\ state_' = state_
       /\ current_challenge_' = current_challenge_
       /\ challenge_timestamp_' = challenge_timestamp_]_vars

C29_Witness ==
  /\ phase = "response"
  /\ bound_to = ChallengeB
  /\ state_ = "CHALLENGE_SENT"
  /\ current_challenge_ = ChallengeA
  /\ challenge_timestamp_ > 0
  /\ tx_frame.command_id = 61

\* C30: within a session (until the next start_discovery or begin) a listed
\* entry is never modified and keeps its index: after any response, whatever
\* its RSSI, device type, manufacturer or protocol version, every entry that
\* was listed is still listed at the same index with the same contents.
C30_EntriesNeverModified ==
  [][disc_obs'.op \in {"response", "stop"} =>
       /\ discovered_count_' >= discovered_count_
       /\ \A i \in 1..discovered_count_ : discovered_devices_'[i] = discovered_devices_[i]]_vars

C30_Witness ==
  /\ disc_obs.op = "response" /\ ~disc_obs.ret /\ disc_obs.open
  /\ discovered_count_ = 1
  /\ disc_obs.seen = <<discovered_devices_[1].node_id>>
  /\ disc_obs.rssi = -40
  /\ discovered_devices_[1].rssi = -70
  /\ discovered_devices_[1].timestamp_ms < now_ms
  /\ discovered_devices_[1].protocol_version = 0


\* C31: process_beacon returns true exactly for a frame whose Ctrl1 bit 7 is
\* set; a frame without the bit leaves the stored beacon as it was; and
\* get_last_beacon returns the source, the type (params[0], SYNC without
\* params), the RSSI and the SNR of the last beacon frame processed since
\* begin(), or fails when there was none.
C31_BeaconTracker ==
  /\ beacon_obs.op = "process_beacon" =>
       /\ (~beacon_obs.ret) => <<beacon_received_, last_beacon_>> = beacon_obs.pre
       /\ beacon_obs.ret = beacon_obs.flagged
  /\ beacon_received_ = (beacon_obs.latest # NullPtr)
  /\ beacon_obs.op = "get_last_beacon" =>
       IF beacon_obs.latest = NullPtr THEN ~beacon_obs.ret
       ELSE /\ beacon_obs.ret
            /\ beacon_obs.info.node_id = beacon_obs.latest.src
            /\ beacon_obs.info.type = (IF Len(beacon_obs.latest.params) > 0
                                         THEN beacon_obs.latest.params[1] ELSE SYNC_BEACON)
            /\ beacon_obs.info.rssi = beacon_obs.latest.rssi
            /\ beacon_obs.info.snr = beacon_obs.latest.snr

\* the second beacon processed had no params and followed one with params
C31_Witness ==
  /\ beacon_obs.op = "get_last_beacon"
  /\ beacon_obs.ret
  /\ beacon_obs.fed = 2
  /\ beacon_obs.latest.params = <<>>
  /\ beacon_obs.info.data[1] # 0

\* the frame with this id parses from a full read and carries a CRC and a tag
\* that are valid under the controller's key; a 2W tag is bound to a
\* challenge, and the receive path holds none
ReceivedValid(id) ==
  /\ id # "none"
  /\ parse_frame(RxBuffer[id], FRAME_MAX_SIZE).ok
  /\ CrcOk(RxFrame[id])
  /\ RxFrame[id].is_1w_mode
  /\ verify_hmac(frame_data_of(RxFrame[id]), 1 + RxFrame[id].data_len,
                 RxFrame[id].hmac, RxFrame[id].rolling_code, system_key_, FALSE)

\* C32: check_received returns true, and calls the registered callback
\* exactly once, only when receiving was active and the bytes read parsed and
\* passed CRC and tag validation under the system key; a frame that fails
\* parsing or validation makes it return false without a callback.
C32_ReportedOnlyWhenValid ==
  [][(last_rx' # last_rx) =>
       /\ last_rx'.ret = "true" =>
            /\ receiving_
            /\ ReceivedValid(last_rx'.id)
            /\ rx_callback_ # "nullptr" => last_rx'.callbacks = 1
       /\ (last_rx'.id # "none" /\ ~ReceivedValid(last_rx'.id)) =>
            /\ last_rx'.ret = "false"
            /\ last_rx'.callbacks = 0]_vars


\* the four steps of the running checksum for one byte b on (c1, c2)
RunningChecksumStep(b, c1, c2) ==
  LET t == Xor8(b, c2)
      shifted == (c1 * 2) % 256
      c2_new == IF t >= 128 THEN Or8(shifted, 1) ELSE shifted
  IN IF c1 \div 128 = 0
       THEN <<c2_new, (t * 2) % 256>>
       ELSE <<Xor8(c2_new, 85), Xor8((t * 2) % 256, 91)>>

\* (c1, c2) after the first n bytes of data, both starting at 0
RECURSIVE RunningChecksum(_, _)
RunningChecksum(data, n) ==
  IF n = 0 THEN <<0, 0>>
  ELSE LET before == RunningChecksum(data, n - 1)
       IN RunningChecksumStep(data[n], before[1], before[2])

\* C33: for cmd | params of 1..22 bytes, IV bytes 0-7 are its first 8 bytes,
\* padded with 0x55 when it is shorter; bytes 8-9 are the running checksum
\* over all of its bytes; bytes 10-15 are the rolling code, low byte first,
\* and four 0x55 bytes in 1W, or the 6-byte challenge in 2W.
C33_IvLayout ==
  iv_obs.op \in {"construct_iv_1w", "construct_iv_2w"} =>
    /\ Len(iv_obs.out) = IV_SIZE
    /\ \A i \in 1..8 :
         iv_obs.out[i] = IF i <= Len(iv_obs.data) THEN iv_obs.data[i] ELSE 85
    /\ <<iv_obs.out[9], iv_obs.out[10]>> = RunningChecksum(iv_obs.data, Len(iv_obs.data))
    /\ IF iv_obs.op = "construct_iv_1w"
         THEN SubSeq(iv_obs.out, 11, 16)
                = <<iv_obs.binding % 256, iv_obs.binding \div 256, 85, 85, 85, 85>>
         ELSE SubSeq(iv_obs.out, 11, 16) = iv_obs.binding

\* a 1W IV was built from 22 bytes whose checksum differs from that of the
\* first 8, with a rolling code above 255
C33_Witness ==
  /\ iv_obs.op = "construct_iv_1w"
  /\ Len(iv_obs.data) = 22
  /\ iv_obs.binding = 4660
  /\ RunningChecksum(iv_obs.data, 22) # RunningChecksum(iv_obs.data, 8)

\* C34: for the byte fed and every pair of accumulators (c1, c2) in 0..255,
\* compute_checksum gives the pair the four steps of the running checksum
\* give (evaluated once per byte, at the call made on the accumulators
\* (0, 0)); in particular for the accumulators the call was made on.
C34_ChecksumBitExact ==
  iv_obs.op = "compute_checksum" =>
    /\ iv_obs.out = RunningChecksumStep(iv_obs.data[1], iv_obs.binding[1], iv_obs.binding[2])
    /\ iv_obs.binding = <<0, 0>> =>
         \A c1 \in 0..255, c2 \in 0..255 :
           compute_checksum(iv_obs.data[1], <<c1, c2>>)
             = RunningChecksumStep(iv_obs.data[1], c1, c2)

\* byte 0xC8 was fed to accumulators with the high bit of c1 set
C34_Witness ==
  /\ iv_obs.op = "compute_checksum"
  /\ iv_obs.data[1] = 200
  /\ iv_obs.binding = <<128, 255>>
  /\ iv_obs.out = <<85, 53>>

\* C35: asked at the reading now with the last hop stored at last_hop,
\* time_until_next_hop_us returns the dwell minus the elapsed time while the
\* elapsed time is below the dwell, and 0 once it has reached it; the call
\* changes neither the channel nor the stored time of the last hop.
C35_TimeUntilNextHop ==
  [][hop_obs'.op = "time_until_next_hop_us" =>
       /\ hop_obs'.until =
            IF hop_obs'.arg - last_hop_time_ms_ >= (hop_interval_us_ + 999) \div 1000
              THEN 0
              ELSE hop_interval_us_ - (hop_obs'.arg - last_hop_time_ms_) * 1000
       /\ current_channel_' = current_channel_
       /\ last_hop_time_ms_' = last_hop_time_ms_]_vars

\* C36: a successful verify_challenge_response leaves the manager
\* AUTHENTICATED; a call made in any state but CHALLENGE_SENT, so every call
\* after a success, fails, also with the frame that was just accepted; and
\* an authenticated manager awaits a response again only through
\* generate_challenge, which stores a challenge and the time.
C36_ResponseAcceptedOnce ==
  [][/\ (last_verify'.done /\ last_verify'.ret) => last_verify'.post = "AUTHENTICATED"
     /\ (last_verify'.done /\ last_verify'.pre # "CHALLENGE_SENT") => ~last_verify'.ret
     /\ (last_verify' # last_verify /\ last_verify'.done) =>
          /\ last_verify'.pre = state_
          /\ last_verify'.post = state_'
     /\ (state_ = "AUTHENTICATED" /\ state_' = "CHALLENGE_SENT") =>
          /\ current_challenge_' \in Challenges
          /\ challenge_timestamp_' = now_ms]_vars

\* the response just accepted under ChallengeA was handed in again and refused
C36_Witness ==
  /\ last_verify.done
  /\ last_verify.pre = "AUTHENTICATED"
  /\ last_verify.id = "resp_A"
  /\ ~last_verify.ret
  /\ state_ = "AUTHENTICATED"
  /\ current_challenge_ = ChallengeA
  /\ validate_frame(AuthFrame["resp_A"], auth_key_, current_challenge_)
  /\ elapsed_ms(now_ms, challenge_timestamp_) <= CHALLENGE_TIMEOUT_MS

\* C37: whenever send_command has invoked the radio's transmit, receiving_
\* was false at that moment; and when receiving was active before the call
\* and the radio resumed reception, receiving is active afterwards; the
\* registered callback is the one registered before the call.
C37_HalfDuplex ==
  [][(last_send' # last_send /\ last_send'.bytes # <<>>) =>
       /\ ~last_send'.rx_at_tx
       /\ last_send'.resumed => receiving_'
       /\ rx_callback_' = rx_callback_]_vars

\* a frame left while reception was active with a callback, and reception resumed
C37_Witness ==
  /\ last_send.done
  /\ last_send.bytes # <<>>
  /\ last_send.resumed
  /\ receiving_
  /\ rx_callback_ = "on_frame"

\* C38: a send_command call made on a controller that was never begun, or
\* with more than 21 parameter bytes, returns false, hands nothing to the
\* radio and leaves the rolling code, the receiving flag and the callback as
\* they were.
C38_RejectedSendChangesNothing ==
  [][(/\ last_send' # last_send
      /\ last_send'.call[1] = "send_command"
      /\ (~initialized_ \/ last_send'.call[3] > FRAME_MAX_DATA_SIZE)) =>
       /\ ~last_send'.ret
       /\ last_send'.bytes = <<>>
       /\ rolling_code_' = rolling_code_
       /\ receiving_' = receiving_
       /\ rx_callback_' = rx_callback_]_vars

\* 22 parameter bytes were refused in 1W mode while reception was active and
\* the counter had been restored to 65535
C38_Witness ==
  /\ last_send.done
  /\ last_send.call = <<"send_command", PeerNode, 22>>
  /\ last_send.stage = "set_command"
  /\ last_send.is_1w
  /\ initialized_
  /\ receiving_
  /\ rolling_code_ = 65535

\* C39: every buffer index parse_frame reads lies below buffer_len, also
\* when the declared length is smaller than the fixed fields of the frame's
\* mode; and a successful parse has read exactly the bytes its fields came from.
C39_ParseReadsInsideBuffer ==
  (rx.done /\ rx.exact) =>
    /\ \A i \in parse_frame_reads(wire.bytes, wire.len) : i >= 0 /\ i < wire.len
    /\ rx.ok => parse_frame_reads(wire.bytes, wire.len)
                  = 0..(parsed_through(rx.frame.is_1w_mode, rx.frame.data_len) - 1)
    /\ (~rx.ok) => parse_frame_reads(wire.bytes, wire.len) \in {{}, {0, 1}, 0..8}

\* a full 1W buffer whose header declares 19 bytes, fewer than the fixed 1W
\* fields, was refused after the header was read
C39_Witness ==
  /\ rx.done /\ rx.exact
  /\ ~rx.ok
  /\ wire.len = 32
  /\ DeclaredOneWay
  /\ DeclaredLen = 19
  /\ rx.frame.data_len = 255
  /\ parse_frame_reads(wire.bytes, wire.len) = 0..8
====
